---- MODULE Spec2Model ----
(***************************************************************************)
(* Session store, session guard, login rate limiter and the two background *)
(* cleanup loops of the Taiga MCP bridge (src/src/server.py, src/src/      *)
(* types.py), as a state machine of request threads and reaper threads.    *)
(*                                                                         *)
(* Granularity.  Only login takes _session_lock; logout, the session guard *)
(* (_get_authenticated_client), session_status and the session reaper call *)
(* _cleanup_session without it.  The session-side handlers are therefore   *)
(* split into the steps between which another thread can run (one step per *)
(* access to a shared dict, list or object).  A purely local computation   *)
(* is merged into the step before it, and a call's entry is merged with    *)
(* its first access.  All accesses to rate_limit_data are made inside      *)
(* `with _rate_limit_lock:`, so each such critical section is two steps:   *)
(* the acquire, then the body together with the release at the end of the  *)
(* with-block.  Each step reads the clock once.                            *)
(*                                                                         *)
(* Objects.  SessionInfo objects live in the heap session_info (named by   *)
(* their session_id); active_sessions is the key set of the dict, each key *)
(* bound to the object of that id.  The lists stored in sessions_by_user   *)
(* live in the heap list_objs, because a thread may still hold a reference *)
(* to a list that another thread has already popped from the dict.         *)
(***************************************************************************)
EXTENDS Integers, Sequences, FiniteSets, TLC

\* ------------------------------------------------------------------ bounds
\* Number of tool calls (login, logout, guarded call, session_status) made in a run
\* of the session subsystem.
MaxCalls == 3
\* Number of logins made in a run of the login path.
MaxLogins == 4
\* The clock runs from 0 to MaxTime.
MaxTime == 2
\* Number of logins made, and the last instant of the clock, in a run of the
\* rate-limit reaper.
MaxSweepLogins == 3
MaxSweepTime == 3
\* Number of logins made in a run of the transport check.
MaxHostLogins == 3

\* ------------------------------------------------------- configuration (env)
\* os.getenv values, in clock ticks; scaled down from the defaults 60 / 28800.
LOGIN_RATE_WINDOW == 1
SESSION_EXPIRY == 2
\* Values LOGIN_LOCKOUT_DURATION takes (fixed for a run; default 900): as long as
\* twice the rate window, and longer.
LockoutValues == {2, 3}
\* Values LOGIN_MAX_ATTEMPTS takes; 0 disables rate limiting.
MaxAttemptsValues == {0, 1}
\* Values MAX_CONCURRENT_SESSIONS takes (fixed for a run).
MaxSessionsValues == {1, 2}

\* Values ALLOW_HTTP_TAIGA takes (fixed for a run; unset reads as "false").
AllowHttpValues == {"false", "true", "TRUE", "1"}

\* Host URLs given to login, as the scheme prefix and the rest; EmptyHost is "".
SecureHost == [scheme |-> "https://", netloc |-> "taiga.example"]
PlainHost == [scheme |-> "http://", netloc |-> "taiga.example"]
EmptyHost == [scheme |-> "", netloc |-> ""]
Hosts == {SecureHost, PlainHost, EmptyHost}

\* Number of calls made in a run of the session-bearing tools.
MaxToolCalls == 3
\* Resource and user ids a tool is called with: one invalid, one valid.
Ids == {0, 1}
\* The tools modelled: one that opens with the guard, one that goes through
\* _assign_resource_to_user.
Tools == {"update_task", "assign_task_to_user"}

\* Number of logins made, and the last instant of the clock, in a run of the
\* lockout's life.
MaxLockoutLogins == 3
MaxLockoutTime == 5
\* Number of logins made, and of sweeps of each reaper that raise, in a run of the
\* two reaper loops.
MaxLoopLogins == 2
MaxFaults == 2
\* Number of logins made in a run of the two locks.
MaxLockLogins == 2
\* Number of logins made in a run of the session TTL settings.
MaxTTLLogins == 3
\* Values SESSION_EXPIRY takes in that run: negative, zero and positive.
TTLValues == {-1, 0, 1, 2}
\* Number of logins made in a run of the session reaper's progress.
MaxExpiryLogins == 3
\* Number of logins made in a run of the outcomes of the credential check.
MaxOutcomeLogins == 4
\* Number of logins made in a run of the logins of two users.
MaxUserLogins == 4
\* MAX_CONCURRENT_SESSIONS = 0: no limit
Unlimited == 0

Users == {"alice"}
\* The usernames of the runs with two users.
TwoUsers == {"alice", "bob"}
Workers == {"w1", "w2"}
SessionCleanup == "SessionCleanup"
RateLimitCleanup == "RateLimitCleanup"
Threads == Workers \cup {SessionCleanup, RateLimitCleanup}
NoThread == "none"

None == -1
FreshList == -1

VARIABLES
    now,               \* datetime.utcnow()
    env,               \* os.environ: the settings that change at run time
    calls,             \* number of tool calls started
    session_info,      \* heap of SessionInfo objects, indexed by session_id
    active_sessions,   \* keys of the dict active_sessions
    sessions_by_user,  \* dict username -> reference to a list object
    list_objs,         \* heap of the list objects
    authenticated,     \* client wrappers whose api holds an auth token
    issued,            \* session ids that login has returned to a caller
    unchecked,         \* usernames with a failed attempt tracked since their last check
    rate_limit_data,   \* dict username -> RateLimitInfo
    session_lock,      \* holder of _session_lock
    rate_limit_lock,   \* holder of _rate_limit_lock
    th                 \* per thread: position and local variables

vars == <<now, env, calls, session_info, active_sessions, sessions_by_user,
          list_objs, authenticated, issued, unchecked, rate_limit_data,
          session_lock, rate_limit_lock, th>>

session_vars == <<session_info, active_sessions, sessions_by_user, list_objs>>

\* int(os.getenv("LOGIN_LOCKOUT_DURATION", "900")), read by each check
LOGIN_LOCKOUT_DURATION == env.LOGIN_LOCKOUT_DURATION

\* ------------------------------------------------------------------- values
NoRes == [tag |-> "none", reason |-> "none", num |-> 0]
Res(tag, reason, num) == [tag |-> tag, reason |-> reason, num |-> num]

\* What a rate-limiter function found under the username when it ran (kept in the
\* frame until the function has returned, for the properties below).
NotFound ==
    [present |-> FALSE, info |-> [attempts |-> <<>>, locked_until |-> -1], fresh |-> FALSE]
FoundRecord(r, fresh) == [present |-> TRUE, info |-> r, fresh |-> fresh]

Frame0 ==
    [pc |-> "idle", op |-> "none", user |-> "none", host |-> EmptyHost, api |-> FALSE,
     sid |-> 0, late |-> FALSE,
     call |-> 0, wrapper |-> 0, max_attempts |-> 0, success |-> FALSE,
     user_sessions |-> 0, csid |-> 0, cuser |-> "none", ret |-> "none", new_sid |-> 0,
     expired |-> <<>>, cutoff |-> 0, res |-> NoRes, found |-> NotFound,
     lapsed |-> FALSE, collected |-> <<>>, at |-> 0, before |-> <<>>,
     popped |-> FALSE, rid |-> 0, uid |-> 0, ran |-> <<>>, failing |-> FALSE,
     tracked |-> <<>>, again |-> FALSE, verified |-> FALSE, faults |-> 0, ttl |-> 0]

\* The frame of thread t between two calls (for a reaper: at the head of its loop,
\* in asyncio.sleep); faults counts the sweeps of the loop that have raised.
LoopFrame(t) == [Frame0 EXCEPT !.faults = th[t].faults]

\* dict helpers: a dict is a function whose DOMAIN is its key set
DictSet(d, k, v) == [x \in DOMAIN d \cup {k} |-> IF x = k THEN v ELSE d[x]]
DictPop(d, k) == [x \in DOMAIN d \ {k} |-> d[x]]

\* ------------------------------------------------------------- types.py
\* SessionInfo(session_id, client, username): created_at, last_accessed default to
\* utcnow(); __post_init__ sets expires_at from SESSION_EXPIRY (<= 0 falls back to 28800).
DefaultTTL == 28800
\* (the configured value taken as it is, without the fallback)
SessionInfoAsConfigured(client, username, t, ttl) ==
    [client |-> client, username |-> username, created_at |-> t, last_accessed |-> t,
     expires_at |-> t + ttl]

SessionInfo(client, username, t, ttl) ==
    [client |-> client, username |-> username, created_at |-> t, last_accessed |-> t,
     expires_at |-> t + (IF ttl <= 0 THEN DefaultTTL ELSE ttl)]

\* (a session that expires only after its expires_at instant)
is_expired_after(s, t) == t > s.expires_at

is_expired(s, t) == t >= s.expires_at

\* (sliding expiry: an access also renews expires_at)
update_and_renew(s, t) ==
    [s EXCEPT !.last_accessed = t, !.expires_at = t + (s.expires_at - s.created_at)]

update_last_accessed(s, t) == [s EXCEPT !.last_accessed = t]

\* (the time since creation in the place of the time left)
time_since_creation(s, t) == t - s.created_at

time_until_expiry(s, t) == s.expires_at - t

\* int(td.total_seconds()).  The clock of the model counts whole seconds; two readings
\* of utcnow() that are d seconds apart on that clock differ by d + x seconds with
\* -1 < x < 1, and int() truncates toward zero, so the result is d or (behind = 1)
\* the whole number next to it on the side of zero.
WholeSeconds(d, behind) ==
    IF d > 0 THEN d - behind ELSE IF d < 0 THEN d + behind ELSE 0

LoginAttempt(t, username, success) ==
    [timestamp |-> t, username |-> username, success |-> success]

RateLimitInfo == [attempts |-> <<>>, locked_until |-> None]

\* (a lockout that stays in force once set, whatever the clock says)
is_locked_out_for_good(r, t) == r.locked_until # None

\* (the comparison of the clock with locked_until turned round)
is_locked_out_after(r, t) == IF r.locked_until = None THEN FALSE ELSE t > r.locked_until

is_locked_out(r, t) == IF r.locked_until = None THEN FALSE ELSE t < r.locked_until

\* (the instant of the expiry in the place of the time left)
lockout_expiry_time(r, t, behind) == IF ~is_locked_out(r, t) THEN 0 ELSE r.locked_until

\* int((self.locked_until - datetime.utcnow()).total_seconds())
remaining_lockout_time(r, t, behind) ==
    IF ~is_locked_out(r, t) THEN 0 ELSE WholeSeconds(r.locked_until - t, behind)

\* ------------------------------------------------------------------ Init
Init ==
    /\ now = 0
    /\ env \in [LOGIN_MAX_ATTEMPTS : MaxAttemptsValues,
                MAX_CONCURRENT_SESSIONS : MaxSessionsValues \cup {Unlimited},
                LOGIN_LOCKOUT_DURATION : LockoutValues,
                ALLOW_HTTP_TAIGA : AllowHttpValues]
    /\ calls = 0
    /\ session_info = <<>>
    /\ active_sessions = {}
    /\ sessions_by_user = <<>>
    /\ list_objs = <<>>
    /\ authenticated = {}
    /\ issued = {}
    /\ unchecked = {}
    /\ rate_limit_data = <<>>
    /\ session_lock = NoThread
    /\ rate_limit_lock = NoThread
    /\ th = [t \in Threads |-> Frame0]

\* ------------------------------------------------------------ environment
\* The clock moves on, up to the instant last.
Advance(last) ==
    /\ now < last
    /\ now' = now + 1
    /\ UNCHANGED <<env, calls, session_vars, authenticated, issued, unchecked,
                   rate_limit_data, session_lock, rate_limit_lock, th>>

Tick == Advance(MaxTime)

\* (a with-statement that does not give the lock back)
Retain(lock, t) == lock

\* With-statement exit of a lock held by t.
Release(lock, t) == IF lock = t THEN NoThread ELSE lock

SetFrame(t, f) == th' = [th EXCEPT ![t] = f]

\* A request is handed to the first idle worker thread (the workers are
\* interchangeable, so which idle one takes it makes no difference).
WorkerOrder == <<"w1", "w2">>
Ready(t) ==
    /\ th[t].pc = "idle"
    /\ \A i, j \in DOMAIN WorkerOrder :
           i < j /\ WorkerOrder[j] = t => th[WorkerOrder[i]].pc # "idle"

\* A finished call hands its result (th[t].res) to its caller and the thread is idle.
Return(t) ==
    /\ th[t].pc = "done"
    /\ SetFrame(t, LoopFrame(t))
    /\ UNCHANGED <<now, env, calls, session_vars, authenticated, issued, unchecked,
                   rate_limit_data, session_lock, rate_limit_lock>>

\* ------------------------------------------------ rate limiter (server.py)
\* while rate_info.attempts and rate_info.attempts[0].timestamp < cutoff_time: popleft()
RECURSIVE PruneWindow(_, _)
PruneWindow(attempts, cutoff_time) ==
    IF attempts # <<>> /\ Head(attempts).timestamp < cutoff_time
    THEN PruneWindow(Tail(attempts), cutoff_time)
    ELSE attempts

\* [a for a in attempts if not a.success] / [a for a in attempts if a.success]
FailedAttempts(attempts) == SelectSeq(attempts, LAMBDA a : ~a.success)
SuccessfulAttempts(attempts) == SelectSeq(attempts, LAMBDA a : a.success)

\* (the threshold taken as exceeded rather than reached)
ThresholdExceeded(failed, max_attempts) == Len(failed) > max_attempts

\* if len(failed_attempts) >= max_attempts
ThresholdReached(failed, max_attempts) == Len(failed) >= max_attempts

\* (a check made during a lockout starts the lockout afresh)
CheckRecordExtending(r, max_attempts, t, behind) ==
    IF is_locked_out(r, t)
    THEN [info |-> [r EXCEPT !.locked_until = t + LOGIN_LOCKOUT_DURATION],
          verdict |-> "locked_out", num |-> remaining_lockout_time(r, t, behind)]
    ELSE LET kept == PruneWindow(r.attempts, t - LOGIN_RATE_WINDOW)
         IN  IF ThresholdReached(FailedAttempts(kept), max_attempts)
             THEN [info |-> [attempts |-> kept, locked_until |-> t + LOGIN_LOCKOUT_DURATION],
                   verdict |-> "threshold", num |-> LOGIN_LOCKOUT_DURATION]
             ELSE [info |-> [r EXCEPT !.attempts = kept], verdict |-> "pass", num |-> 0]

\* (the lockout set for the length of the rate window)
CheckRecordWindowLock(r, max_attempts, t, behind) ==
    IF is_locked_out(r, t)
    THEN [info |-> r, verdict |-> "locked_out", num |-> remaining_lockout_time(r, t, behind)]
    ELSE LET kept == PruneWindow(r.attempts, t - LOGIN_RATE_WINDOW)
         IN  IF ThresholdReached(FailedAttempts(kept), max_attempts)
             THEN [info |-> [attempts |-> kept, locked_until |-> t + LOGIN_RATE_WINDOW],
                   verdict |-> "threshold", num |-> LOGIN_RATE_WINDOW]
             ELSE [info |-> [r EXCEPT !.attempts = kept], verdict |-> "pass", num |-> 0]

\* The critical section of _check_rate_limit on an existing record r at time t:
\* the record it leaves and whether it raises PermissionError (behind: see WholeSeconds).
CheckRecord(r, max_attempts, t, behind) ==
    IF is_locked_out(r, t)
    THEN [info |-> r, verdict |-> "locked_out", num |-> remaining_lockout_time(r, t, behind)]
    ELSE LET kept == PruneWindow(r.attempts, t - LOGIN_RATE_WINDOW)
             failed == FailedAttempts(kept)
         IN  IF ThresholdReached(failed, max_attempts)
             THEN [info |-> [attempts |-> kept, locked_until |-> t + LOGIN_LOCKOUT_DURATION],
                   verdict |-> "threshold", num |-> LOGIN_LOCKOUT_DURATION]
             ELSE [info |-> [r EXCEPT !.attempts = kept], verdict |-> "pass", num |-> 0]

\* (a successful attempt that drops the failures and leaves locked_until as it is)
TrackRecordKeepingLock(r, username, success, t) ==
    LET appended == Append(r.attempts, LoginAttempt(t, username, success))
    IN  [r EXCEPT !.attempts = IF success THEN SuccessfulAttempts(appended) ELSE appended]

\* (the new attempt put at the front of the sequence)
TrackRecordAtFront(r, username, success, t) ==
    LET appended == <<LoginAttempt(t, username, success)>> \o r.attempts
    IN  IF success
        THEN [attempts |-> SuccessfulAttempts(appended), locked_until |-> None]
        ELSE [r EXCEPT !.attempts = appended]

\* (a failed attempt that reaches the threshold sets the lockout itself)
TrackRecordLocking(r, username, success, t) ==
    LET appended == Append(r.attempts, LoginAttempt(t, username, success))
    IN  IF success
        THEN [attempts |-> SuccessfulAttempts(appended), locked_until |-> None]
        ELSE [attempts |-> appended,
              locked_until |->
                  IF /\ env.LOGIN_MAX_ATTEMPTS > 0
                     /\ ThresholdReached(FailedAttempts(appended), env.LOGIN_MAX_ATTEMPTS)
                  THEN t + LOGIN_LOCKOUT_DURATION ELSE r.locked_until]

\* The critical section of _track_login_attempt on record r at time t.
TrackRecord(r, username, success, t) ==
    LET appended == Append(r.attempts, LoginAttempt(t, username, success))
    IN  IF success
        THEN [attempts |-> SuccessfulAttempts(appended), locked_until |-> None]
        ELSE [r EXCEPT !.attempts = appended]

\* (the setting taken once, when the module is loaded with rate limiting on)
ReadMaxAttemptsAtImport(e) == 1

\* The setting _check_rate_limit reads on entry.
ReadMaxAttempts(e) == e.LOGIN_MAX_ATTEMPTS

\* Record r carries a lockout expiry that the clock has reached or passed at t.
Lapsed(r, t) == r.locked_until # None /\ t >= r.locked_until

\* rate_limit_data.get(username), for the record of what a function found
Found(username) ==
    IF username \in DOMAIN rate_limit_data
    THEN FoundRecord(rate_limit_data[username], username \in unchecked) ELSE NotFound

\* login(host, username, password) is called with the environment e;
\* _check_rate_limit reads the settings, returns at once when max_attempts == 0, and
\* otherwise takes _rate_limit_lock.
\* A check has now looked at the username (unchecked is history, not program state).
LoginCallTo(t, username, host, e) ==
    /\ Ready(t)
    /\ calls' = calls + 1
    /\ LET max_attempts == ReadMaxAttempts(e)
           f == [Frame0 EXCEPT !.op = "login", !.user = username, !.host = host,
                               !.call = calls + 1, !.max_attempts = max_attempts]
       IN  IF max_attempts = 0
           THEN /\ SetFrame(t, [f EXCEPT !.pc = "l_checked", !.found = Found(username)])
                /\ unchecked' = unchecked \ {username}
                /\ UNCHANGED rate_limit_lock
           ELSE /\ rate_limit_lock = NoThread
                /\ rate_limit_lock' = t
                /\ SetFrame(t, [f EXCEPT !.pc = "l_check"])
                /\ UNCHANGED unchecked
    /\ UNCHANGED <<now, session_vars, authenticated, issued, rate_limit_data,
                   session_lock>>

\* login to a host whose URL starts with https://
LoginCall(t, username, e) == LoginCallTo(t, username, SecureHost, e)

Login(t, username) ==
    /\ LoginCall(t, username, env)
    /\ UNCHANGED env

\* login to any host
LoginTo(t, username, host) ==
    /\ LoginCallTo(t, username, host, env)
    /\ UNCHANGED env

\* os.environ is changed at run time and this login is the next call to read it
\* (settings are read at the time of use, not cached).
SetEnvAndLogin(t, username, v) ==
    /\ v # env.LOGIN_MAX_ATTEMPTS
    /\ env' = [env EXCEPT !.LOGIN_MAX_ATTEMPTS = v]
    /\ LoginCall(t, username, env')

\* _check_rate_limit, inside `with _rate_limit_lock:`
CheckRateLimit(t) ==
    /\ th[t].pc = "l_check"
    /\ rate_limit_lock' = Release(rate_limit_lock, t)
    /\ unchecked' = unchecked \ {th[t].user}
    /\ LET username == th[t].user
           f == [th[t] EXCEPT !.found = Found(username),
                              !.lapsed = /\ username \in DOMAIN rate_limit_data
                                         /\ Lapsed(rate_limit_data[username], now)]
       IN  IF username \notin DOMAIN rate_limit_data
           THEN /\ SetFrame(t, [f EXCEPT !.pc = "l_checked"])
                /\ UNCHANGED rate_limit_data
           ELSE \E behind \in 0..1 :
                LET c == CheckRecord(rate_limit_data[username], th[t].max_attempts, now, behind)
                IN  /\ rate_limit_data' = [rate_limit_data EXCEPT ![username] = c.info]
                    /\ IF c.verdict = "pass"
                       THEN SetFrame(t, [f EXCEPT !.pc = "l_checked"])
                       ELSE SetFrame(t, [f EXCEPT !.pc = "done",
                                   !.res = Res("PermissionError", c.verdict, c.num)])
    /\ UNCHANGED <<now, env, calls, session_vars, authenticated, issued, session_lock>>

\* _check_rate_limit has returned without raising; login goes on to the credentials
CheckPassed(t) ==
    /\ th[t].pc = "l_checked"
    /\ SetFrame(t, [th[t] EXCEPT !.pc = "l_auth", !.found = NotFound])
    /\ UNCHANGED <<now, env, calls, session_vars, authenticated, issued, unchecked,
                   rate_limit_data, session_lock, rate_limit_lock>>

\* str.lower() on the values ALLOW_HTTP_TAIGA takes
Lower(v) == IF v = "TRUE" THEN "true" ELSE v

\* os.getenv("ALLOW_HTTP_TAIGA", "false").lower() == "true"
allow_http(e) == Lower(e.ALLOW_HTTP_TAIGA) = "true"

\* (the scheme of the host URL not looked at)
any_scheme(host) == TRUE

\* self.host.startswith("https://")
starts_with_https(host) == host.scheme = "https://"

\* (one client object made when the module is loaded and used by every login)
SharedWrapper(call) == 1

\* TaigaClientWrapper(host=host): the object constructed by the login call numbered
\* call, which no earlier call has seen
NewWrapper(call) == call

\* wrapper = TaigaClientWrapper(host), which raises ValueError on an empty host;
\* wrapper.login(username, password): raises ValueError when the host does not start
\* with https:// and HTTP is not allowed; otherwise TaigaClient(host) is instantiated
\* and auth.login called (api), which returns (True) or raises TaigaException.
\* A wrapper.login that returns False (its declared type is bool) takes login to its
\* else-branch: _track_login_attempt(username, success=False); raise RuntimeError,
\* inside the try block, so that `except Exception` then tracks the attempt again.
Authenticate(t, outcome) ==
    /\ th[t].pc = "l_auth"
    /\ LET f == [th[t] EXCEPT !.wrapper = NewWrapper(th[t].call)]
       IN  IF th[t].host = EmptyHost
           THEN /\ UNCHANGED authenticated
                /\ SetFrame(t, [th[t] EXCEPT !.pc = "l_track", !.success = FALSE,
                                             !.res = Res("ValueError", "empty_host", 0)])
           ELSE IF ~starts_with_https(th[t].host) /\ ~allow_http(env)
           THEN /\ UNCHANGED authenticated
                /\ SetFrame(t, [f EXCEPT !.pc = "l_track", !.success = FALSE,
                                         !.res = Res("ValueError", "https_required", 0)])
           ELSE IF outcome = "false"
           THEN /\ UNCHANGED authenticated
                /\ SetFrame(t, [f EXCEPT !.pc = "l_track", !.success = FALSE, !.api = TRUE,
                                         !.again = TRUE,
                                         !.res = Res("RuntimeError", "unknown_reason", 0)])
           ELSE IF outcome = "ok"
           THEN /\ authenticated' = authenticated \cup {f.wrapper}
                /\ SetFrame(t, [f EXCEPT !.pc = "l_lock", !.api = TRUE, !.verified = TRUE])
           ELSE /\ UNCHANGED authenticated
                /\ SetFrame(t, [f EXCEPT !.pc = "l_track", !.success = FALSE, !.api = TRUE,
                                         !.res = Res("TaigaException", "login_failed", 0)])
    /\ UNCHANGED <<now, env, calls, session_vars, issued, unchecked, rate_limit_data,
                   session_lock, rate_limit_lock>>

\* _track_login_attempt: `with _rate_limit_lock:` is entered
TrackAcquire(t) ==
    /\ th[t].pc = "l_track"
    /\ rate_limit_lock = NoThread
    /\ rate_limit_lock' = t
    /\ SetFrame(t, [th[t] EXCEPT !.pc = "l_track_cs"])
    /\ UNCHANGED <<now, env, calls, session_vars, authenticated, issued, unchecked,
                   rate_limit_data, session_lock>>

\* _track_login_attempt, inside the lock; login then returns {"session_id": ...}
\* to the caller or raises (the RuntimeError of the else-branch is caught by login's
\* own `except Exception`, which tracks once more).  The success flags this call has
\* appended are kept in the frame for the properties below.
TrackLoginAttempt(t) ==
    /\ th[t].pc = "l_track_cs"
    /\ rate_limit_lock' = Release(rate_limit_lock, t)
    /\ LET username == th[t].user
           r == IF username \in DOMAIN rate_limit_data
                THEN rate_limit_data[username] ELSE RateLimitInfo
       IN  rate_limit_data' =
               DictSet(rate_limit_data, username, TrackRecord(r, username, th[t].success, now))
    /\ SetFrame(t, [th[t] EXCEPT !.pc = IF th[t].again THEN "l_track" ELSE "done",
                                 !.again = FALSE, !.new_sid = 0,
                                 !.tracked = Append(@, th[t].success),
                                 !.found = Found(th[t].user)])
    /\ issued' = IF th[t].success THEN issued \cup {th[t].new_sid} ELSE issued
    /\ unchecked' = IF th[t].success THEN unchecked ELSE unchecked \cup {th[t].user}
    /\ UNCHANGED <<now, env, calls, session_vars, authenticated, session_lock>>

\* ------------------------------------------------ session store (server.py)
\* The list a reference denotes; FreshList is the `[]` default of dict.get.
ListOf(ref) == IF ref = FreshList THEN <<>> ELSE list_objs[ref]

\* (one list shared by every user: the list of the first username indexed)
GetSharedSessions(username) ==
    IF DOMAIN sessions_by_user = {} THEN FreshList
    ELSE sessions_by_user[CHOOSE u \in DOMAIN sessions_by_user :
                              \A v \in DOMAIN sessions_by_user : u = v \/ u = "alice"]

\* sessions_by_user.get(username, [])
GetUserSessions(username) ==
    IF username \in DOMAIN sessions_by_user THEN sessions_by_user[username] ELSE FreshList

\* user_sessions.remove(session_id)
ListRemove(l, session_id) == SelectSeq(l, LAMBDA x : x # session_id)

InList(l, session_id) == \E i \in DOMAIN l : l[i] = session_id

\* (the identifier taken from the number of sessions in the store: one that an
\* earlier, removed session may have had)
CountedSessionId == Cardinality(active_sessions) + 1

\* uuid.uuid4(): an identifier no earlier session has
NewSessionId == Len(session_info) + 1

\* login: `with _session_lock:` is entered; user_sessions = sessions_by_user.get(username, [])
LoginLock(t) ==
    /\ th[t].pc = "l_lock"
    /\ session_lock = NoThread
    /\ session_lock' = t
    /\ SetFrame(t, [th[t] EXCEPT !.pc = "l_len",
                                 !.user_sessions = GetUserSessions(th[t].user)])
    /\ UNCHANGED <<now, env, calls, session_vars, authenticated, issued, unchecked,
                   rate_limit_data, rate_limit_lock>>

\* (the limit enforced at every value, 0 included, once it is exceeded)
LimitExceeded(l, max_sessions) == Len(l) > max_sessions

\* if max_sessions > 0 and len(user_sessions) >= max_sessions
LimitReached(l, max_sessions) == max_sessions > 0 /\ Len(l) >= max_sessions

LoginLimit(t) ==
    /\ th[t].pc = "l_len"
    /\ IF LimitReached(ListOf(th[t].user_sessions), env.MAX_CONCURRENT_SESSIONS)
       THEN SetFrame(t, [th[t] EXCEPT !.pc = "l_oldest"])
       ELSE SetFrame(t, [th[t] EXCEPT !.pc = "l_store", !.user_sessions = 0])
    /\ UNCHANGED <<now, env, calls, session_vars, authenticated, issued, unchecked,
                   rate_limit_data, session_lock, rate_limit_lock>>

\* (the newest entry picked instead of the oldest)
NewestSession(l) == l[Len(l)]

\* oldest_session_id = user_sessions[0]
OldestSession(l) == l[1]

\* An exception inside the with-block releases _session_lock and reaches
\* `except Exception`: the attempt is tracked as failed and RuntimeError is raised.
LoginException(t, what) ==
    [th[t] EXCEPT !.pc = "l_track", !.success = FALSE, !.user_sessions = 0,
                  !.res = Res("RuntimeError", what, 0)]

\* oldest_session_id = user_sessions[0]; _cleanup_session(oldest_session_id) is called.
\* An empty list raises IndexError.
LoginOldest(t) ==
    /\ th[t].pc = "l_oldest"
    /\ LET l == ListOf(th[t].user_sessions)
       IN  IF l = <<>>
           THEN /\ SetFrame(t, LoginException(t, "IndexError"))
                /\ session_lock' = Release(session_lock, t)
           ELSE /\ SetFrame(t, [th[t] EXCEPT !.pc = "c_pop", !.csid = OldestSession(l),
                                             !.ret = "l_store", !.user_sessions = 0])
                /\ UNCHANGED session_lock
    /\ UNCHANGED <<now, env, calls, session_vars, authenticated, issued, unchecked,
                   rate_limit_data, rate_limit_lock>>

\* session_info = SessionInfo(...); active_sessions[new_session_id] = session_info
\* (ttl is int(os.getenv("SESSION_EXPIRY", "28800")) as __post_init__ reads it, kept
\* in the frame for the properties below)
LoginStoreWith(t, ttl) ==
    /\ th[t].pc = "l_store"
    /\ session_info' = Append(session_info,
                              SessionInfo(th[t].wrapper, th[t].user, now, ttl))
    /\ active_sessions' = active_sessions \cup {NewSessionId}
    /\ SetFrame(t, [th[t] EXCEPT !.pc = "l_index", !.new_sid = NewSessionId, !.ttl = ttl])
    /\ UNCHANGED <<now, env, calls, sessions_by_user, list_objs, authenticated, issued,
                   unchecked, rate_limit_data, session_lock, rate_limit_lock>>

LoginStore(t) == LoginStoreWith(t, SESSION_EXPIRY)

\* if username not in sessions_by_user: sessions_by_user[username] = []
\* (the new list object is named by the session id of the login that makes it)
LoginIndex(t) ==
    /\ th[t].pc = "l_index"
    /\ IF th[t].user \notin DOMAIN sessions_by_user
       THEN /\ sessions_by_user' = DictSet(sessions_by_user, th[t].user, th[t].new_sid)
            /\ list_objs' = DictSet(list_objs, th[t].new_sid, <<>>)
       ELSE UNCHANGED <<sessions_by_user, list_objs>>
    /\ SetFrame(t, [th[t] EXCEPT !.pc = "l_append"])
    /\ UNCHANGED <<now, env, calls, session_info, active_sessions, authenticated, issued,
                   unchecked, rate_limit_data, session_lock, rate_limit_lock>>

\* sessions_by_user[username].append(new_session_id); the with-block ends.
\* A username popped meanwhile raises KeyError.
LoginAppend(t) ==
    /\ th[t].pc = "l_append"
    /\ session_lock' = Release(session_lock, t)
    /\ IF th[t].user \notin DOMAIN sessions_by_user
       THEN /\ SetFrame(t, [LoginException(t, "KeyError") EXCEPT !.new_sid = 0])
            /\ UNCHANGED list_objs
       ELSE /\ list_objs' = [list_objs EXCEPT ![sessions_by_user[th[t].user]] =
                                 Append(@, th[t].new_sid)]
            /\ SetFrame(t, [th[t] EXCEPT !.pc = "l_track", !.success = TRUE,
                                         !.res = Res("session_id", "ok", th[t].new_sid)])
    /\ UNCHANGED <<now, env, calls, session_info, active_sessions, sessions_by_user,
                   authenticated, issued, unchecked, rate_limit_data, rate_limit_lock>>

\* ------------------------------------------------------- _cleanup_session
\* session_info = active_sessions.pop(session_id, None); if session_info: ...
CleanupPop(t) ==
    /\ th[t].pc = "c_pop"
    /\ IF th[t].csid \in active_sessions
       THEN /\ active_sessions' = active_sessions \ {th[t].csid}
            /\ SetFrame(t, [th[t] EXCEPT !.pc = "c_get",
                                         !.cuser = session_info[th[t].csid].username])
       ELSE /\ UNCHANGED active_sessions
            /\ SetFrame(t, [th[t] EXCEPT !.pc = th[t].ret, !.csid = 0, !.ret = "none"])
    /\ UNCHANGED <<now, env, calls, session_info, sessions_by_user, list_objs,
                   authenticated, issued, unchecked, rate_limit_data, session_lock,
                   rate_limit_lock>>

\* user_sessions = sessions_by_user.get(session_info.username, [])
CleanupGet(t) ==
    /\ th[t].pc = "c_get"
    /\ SetFrame(t, [th[t] EXCEPT !.pc = "c_remove",
                                 !.user_sessions = GetUserSessions(th[t].cuser)])
    /\ UNCHANGED <<now, env, calls, session_vars, authenticated, issued, unchecked,
                   rate_limit_data, session_lock, rate_limit_lock>>

\* if session_id in user_sessions: user_sessions.remove(session_id)
CleanupRemove(t) ==
    /\ th[t].pc = "c_remove"
    /\ LET ref == th[t].user_sessions
       IN  IF ref # FreshList /\ InList(list_objs[ref], th[t].csid)
           THEN list_objs' = [list_objs EXCEPT ![ref] = ListRemove(@, th[t].csid)]
           ELSE UNCHANGED list_objs
    /\ SetFrame(t, [th[t] EXCEPT !.pc = "c_empty"])
    /\ UNCHANGED <<now, env, calls, session_info, active_sessions, sessions_by_user,
                   authenticated, issued, unchecked, rate_limit_data, session_lock,
                   rate_limit_lock>>

\* _cleanup_session returns to the tool that called it for the session it was given,
\* having popped that session from active_sessions itself (kept in the frame until
\* the tool has returned, for the properties below).
PoppedForCaller(t) == th[t].ret = "done"

\* if not user_sessions:
CleanupEmpty(t) ==
    /\ th[t].pc = "c_empty"
    /\ IF ListOf(th[t].user_sessions) = <<>>
       THEN SetFrame(t, [th[t] EXCEPT !.pc = "c_popuser", !.user_sessions = 0])
       ELSE SetFrame(t, [th[t] EXCEPT !.pc = th[t].ret, !.csid = 0, !.cuser = "none",
                                      !.ret = "none", !.user_sessions = 0,
                                      !.popped = PoppedForCaller(t)])
    /\ UNCHANGED <<now, env, calls, session_vars, authenticated, issued, unchecked,
                   rate_limit_data, session_lock, rate_limit_lock>>

\* sessions_by_user.pop(session_info.username, None)
CleanupPopUser(t) ==
    /\ th[t].pc = "c_popuser"
    /\ sessions_by_user' = DictPop(sessions_by_user, th[t].cuser)
    /\ SetFrame(t, [th[t] EXCEPT !.pc = th[t].ret, !.csid = 0, !.cuser = "none",
                                 !.ret = "none", !.popped = PoppedForCaller(t)])
    /\ UNCHANGED <<now, env, calls, session_info, active_sessions, list_objs,
                   authenticated, issued, unchecked, rate_limit_data, session_lock,
                   rate_limit_lock>>

\* Entry of the purge path shared by the guard, session_status and logout:
\* _cleanup_session(session_id) is called and the call then ends with result r.
Purge(t, r) ==
    [th[t] EXCEPT !.pc = "c_pop", !.csid = th[t].sid, !.ret = "done", !.res = r]

\* ------------------------------------------------------------------ logout
\* session_info = active_sessions.get(session_id); if session_info: _cleanup_session(...)
Logout(t, session_id) ==
    /\ Ready(t)
    /\ calls' = calls + 1
    /\ LET f == [Frame0 EXCEPT !.op = "logout", !.sid = session_id]
       IN  IF session_id \in active_sessions
           THEN SetFrame(t, [f EXCEPT !.pc = "c_pop", !.csid = session_id, !.ret = "done",
                                      !.res = Res("logged_out", "ok", session_id)])
           ELSE SetFrame(t, [f EXCEPT !.pc = "done",
                                      !.res = Res("session_not_found", "ok", session_id)])
    /\ UNCHANGED <<now, env, session_vars, authenticated, issued, unchecked,
                   rate_limit_data, session_lock, rate_limit_lock>>

\* ------------------------------------- session guard (_get_authenticated_client)
\* The call names a session whose expires_at has passed when the call is made
\* (kept in the frame for the properties below).
Late(session_id) ==
    session_id \in DOMAIN session_info /\ now >= session_info[session_id].expires_at

\* session_info = active_sessions.get(session_id); check 1: the session exists
Validate(t, session_id) ==
    /\ Ready(t)
    /\ calls' = calls + 1
    /\ LET f == [Frame0 EXCEPT !.op = "validate", !.sid = session_id,
                               !.late = Late(session_id)]
       IN  IF session_id \in active_sessions
           THEN SetFrame(t, [f EXCEPT !.pc = "v_expired"])
           ELSE SetFrame(t, [f EXCEPT !.pc = "done",
                                      !.res = Res("PermissionError", "invalid", 0)])
    /\ UNCHANGED <<now, env, session_vars, authenticated, issued, unchecked,
                   rate_limit_data, session_lock, rate_limit_lock>>

\* check 2: if session_info.is_expired(): _cleanup_session; raise PermissionError
ValidateExpired(t) ==
    /\ th[t].pc = "v_expired"
    /\ IF is_expired(session_info[th[t].sid], now)
       THEN SetFrame(t, Purge(t, Res("PermissionError", "expired", 0)))
       ELSE SetFrame(t, [th[t] EXCEPT !.pc = "v_auth"])
    /\ UNCHANGED <<now, env, calls, session_vars, authenticated, issued, unchecked,
                   rate_limit_data, session_lock, rate_limit_lock>>

\* (the property answering for the absence of a token)
is_unauthenticated(client) == client \notin authenticated

\* TaigaClientWrapper.is_authenticated
is_authenticated(client) == client \in authenticated

\* check 3: if not session_info.client.is_authenticated: _cleanup_session; raise
ValidateAuthenticated(t) ==
    /\ th[t].pc = "v_auth"
    /\ IF ~is_authenticated(session_info[th[t].sid].client)
       THEN SetFrame(t, Purge(t, Res("PermissionError", "auth_lost", 0)))
       ELSE SetFrame(t, [th[t] EXCEPT !.pc = "v_touch"])
    /\ UNCHANGED <<now, env, calls, session_vars, authenticated, issued, unchecked,
                   rate_limit_data, session_lock, rate_limit_lock>>

\* session_info.update_last_accessed(); return session_info.client
ValidateTouch(t) ==
    /\ th[t].pc = "v_touch"
    /\ session_info' = [session_info EXCEPT ![th[t].sid] = update_last_accessed(@, now)]
    /\ SetFrame(t, [th[t] EXCEPT !.pc = IF th[t].op \in Tools THEN "u_validate" ELSE "done",
                                 !.res = Res("client", "ok", session_info[th[t].sid].client)])
    /\ UNCHANGED <<now, env, calls, active_sessions, sessions_by_user, list_objs,
                   authenticated, issued, unchecked, rate_limit_data, session_lock,
                   rate_limit_lock>>

\* ------------------------------ session-bearing tools (update_task, assign_task_to_user)
\* The session id of a call fails the guard when the call is made: it is unknown,
\* expired or its client holds no token (kept in the frame for the properties below).
FailsGuard(session_id) ==
    \/ session_id \notin active_sessions
    \/ is_expired(session_info[session_id], now)
    \/ ~is_authenticated(session_info[session_id].client)

\* validate_positive_integer: int_value <= 0 raises ValidationError
is_positive_integer(value) == value > 0

\* A tool is called with a session id, a resource id and a user id.  update_task
\* opens with the guard; assign_task_to_user opens in _assign_resource_to_user.
ToolCall(t, tool, session_id, resource_id, user_id) ==
    /\ Ready(t)
    /\ calls' = calls + 1
    /\ SetFrame(t, [Frame0 EXCEPT !.op = tool, !.sid = session_id, !.rid = resource_id,
                                  !.uid = user_id, !.late = Late(session_id),
                                  !.failing = FailsGuard(session_id),
                                  !.pc = IF tool = "update_task" THEN "v_get"
                                                                 ELSE "a_validate"])
    /\ UNCHANGED <<now, env, session_vars, authenticated, issued, unchecked,
                   rate_limit_data, session_lock, rate_limit_lock>>

\* _assign_resource_to_user: validate_positive_integer(resource_id, ...);
\* validate_positive_integer(user_id, ...); return update_func(session_id, ...)
AssignValidate(t) ==
    /\ th[t].pc = "a_validate"
    /\ LET f == [th[t] EXCEPT !.ran = Append(@, "validation")]
       IN  IF ~is_positive_integer(th[t].rid)
           THEN SetFrame(t, [f EXCEPT !.pc = "done",
                                      !.res = Res("ValidationError", "resource_id", 0)])
           ELSE IF ~is_positive_integer(th[t].uid)
           THEN SetFrame(t, [f EXCEPT !.pc = "done",
                                      !.res = Res("ValidationError", "user_id", 0)])
           ELSE SetFrame(t, [f EXCEPT !.pc = "v_get"])
    /\ UNCHANGED <<now, env, calls, session_vars, authenticated, issued, unchecked,
                   rate_limit_data, session_lock, rate_limit_lock>>

\* taiga_client_wrapper = _get_authenticated_client(session_id), check 1
GuardGet(t) ==
    /\ th[t].pc = "v_get"
    /\ IF th[t].sid \in active_sessions
       THEN SetFrame(t, [th[t] EXCEPT !.pc = "v_expired"])
       ELSE SetFrame(t, [th[t] EXCEPT !.pc = "done",
                                      !.res = Res("PermissionError", "invalid", 0)])
    /\ UNCHANGED <<now, env, calls, session_vars, authenticated, issued, unchecked,
                   rate_limit_data, session_lock, rate_limit_lock>>

\* update_task: task_id = validate_task_id(task_id); a ValidationError is raised
\* again as ValueError
UpdateValidate(t) ==
    /\ th[t].pc = "u_validate"
    /\ LET f == [th[t] EXCEPT !.ran = Append(@, "validation")]
       IN  IF ~is_positive_integer(th[t].rid)
           THEN SetFrame(t, [f EXCEPT !.pc = "done",
                                      !.res = Res("ValueError", "task_id", 0)])
           ELSE SetFrame(t, [f EXCEPT !.pc = "u_client"])
    /\ UNCHANGED <<now, env, calls, session_vars, authenticated, issued, unchecked,
                   rate_limit_data, session_lock, rate_limit_lock>>

\* update_task: get_resource("task", task_id) and api.tasks.edit(...); the server
\* answers or a TaigaException is raised again
UpdateClient(t, outcome) ==
    /\ th[t].pc = "u_client"
    /\ LET f == [th[t] EXCEPT !.ran = Append(@, "client"), !.pc = "done"]
       IN  IF outcome = "ok"
           THEN SetFrame(t, [f EXCEPT !.res = Res("task", "ok", th[t].rid)])
           ELSE SetFrame(t, [f EXCEPT !.res = Res("TaigaException", "api", 0)])
    /\ UNCHANGED <<now, env, calls, session_vars, authenticated, issued, unchecked,
                   rate_limit_data, session_lock, rate_limit_lock>>

\* ----------------------------------------------------------- session_status
SessionStatus(t, session_id) ==
    /\ Ready(t)
    /\ calls' = calls + 1
    /\ LET f == [Frame0 EXCEPT !.op = "status", !.sid = session_id,
                               !.late = Late(session_id)]
       IN  IF session_id \in active_sessions
           THEN SetFrame(t, [f EXCEPT !.pc = "s_expired"])
           ELSE SetFrame(t, [f EXCEPT !.pc = "done",
                                      !.res = Res("inactive", "not_found", 0)])
    /\ UNCHANGED <<now, env, session_vars, authenticated, issued, unchecked,
                   rate_limit_data, session_lock, rate_limit_lock>>

StatusExpired(t) ==
    /\ th[t].pc = "s_expired"
    /\ IF is_expired(session_info[th[t].sid], now)
       THEN SetFrame(t, Purge(t, Res("inactive", "expired", 0)))
       ELSE SetFrame(t, [th[t] EXCEPT !.pc = "s_auth"])
    /\ UNCHANGED <<now, env, calls, session_vars, authenticated, issued, unchecked,
                   rate_limit_data, session_lock, rate_limit_lock>>

StatusAuthenticated(t) ==
    /\ th[t].pc = "s_auth"
    /\ IF ~is_authenticated(session_info[th[t].sid].client)
       THEN SetFrame(t, Purge(t, Res("inactive", "token_invalid", 0)))
       ELSE SetFrame(t, [th[t] EXCEPT !.pc = "s_me"])
    /\ UNCHANGED <<now, env, calls, session_vars, authenticated, issued, unchecked,
                   rate_limit_data, session_lock, rate_limit_lock>>

\* me = session_info.client.api.users.me(): the round trip answers (only a client
\* that still holds its token can be answered) or raises; on an exception the session
\* is cleaned up and the status is "error".  The answer carries
\* int(session_info.time_until_expiry().total_seconds()).
StatusRoundTrip(t, answered, behind) ==
    /\ th[t].pc = "s_me"
    /\ LET s == session_info[th[t].sid]
       IN  IF answered
           THEN /\ is_authenticated(s.client)
                /\ SetFrame(t, [th[t] EXCEPT !.pc = "done",
                       !.res = Res("active", "ok",
                                   WholeSeconds(time_until_expiry(s, now), behind))])
           ELSE SetFrame(t, Purge(t, Res("error", "api_error", 0)))
    /\ UNCHANGED <<now, env, calls, session_vars, authenticated, issued, unchecked,
                   rate_limit_data, session_lock, rate_limit_lock>>

\* The token of a session's client is dropped or revoked (external event).  The event
\* is taken when some thread is about to look at that client; an earlier occurrence
\* cannot be told apart from this one.
LoseAuthentication(client) ==
    /\ client \in authenticated
    /\ \E t \in Workers : /\ th[t].pc \in {"v_auth", "s_auth", "s_me"}
                          /\ session_info[th[t].sid].client = client
    /\ authenticated' = authenticated \ {client}
    /\ UNCHANGED <<now, env, calls, session_vars, issued, unchecked, rate_limit_data,
                   session_lock, rate_limit_lock, th>>

\* ------------------------------------------------- background session cleanup
\* The ids of s, ascending: dict order of active_sessions is insertion order.
RECURSIVE SortedIds(_)
SortedIds(s) ==
    IF s = {} THEN <<>>
    ELSE LET m == CHOOSE x \in s : \A y \in s : x <= y
         IN  <<m>> \o SortedIds(s \ {m})

\* for session_id, session_info in list(active_sessions.items()):
\*     if session_info.is_expired(): expired_sessions.append(session_id)
ExpiredSessions(t) == SortedIds({s \in active_sessions : is_expired(session_info[s], t)})

\* _cleanup_expired_sessions_sync after asyncio.sleep(cleanup_interval): the scan
\* (a sweep that finds no expired session changes nothing and is not a step)
SweepScan ==
    /\ th[SessionCleanup].pc = "idle"
    /\ ExpiredSessions(now) # <<>>
    /\ SetFrame(SessionCleanup, [LoopFrame(SessionCleanup) EXCEPT !.pc = "r_next", !.op = "sweep",
                                               !.expired = ExpiredSessions(now),
                                               !.collected = ExpiredSessions(now),
                                               !.at = now])
    /\ UNCHANGED <<now, env, calls, session_vars, authenticated, issued, unchecked,
                   rate_limit_data, session_lock, rate_limit_lock>>

\* return len(expired_sessions)
SweepResult(f) == Len(f.collected)

\* for session_id in expired_sessions: _cleanup_session(session_id)
\* (expired is what the loop has still to visit, collected the list as it was built,
\* at the instant of the scan)
SweepNext ==
    /\ th[SessionCleanup].pc = "r_next"
    /\ LET f == th[SessionCleanup]
       IN  IF f.expired = <<>>
           THEN SetFrame(SessionCleanup, LoopFrame(SessionCleanup))
           ELSE SetFrame(SessionCleanup,
                    [f EXCEPT !.pc = "c_pop", !.csid = Head(f.expired), !.ret = "r_next",
                              !.expired = Tail(f.expired)])
    /\ UNCHANGED <<now, env, calls, session_vars, authenticated, issued, unchecked,
                   rate_limit_data, session_lock, rate_limit_lock>>

\* ----------------------------------------------- background rate-limit cleanup
\* (a record taken as old as soon as its oldest attempt is old)
StaleByOldest(r, cutoff_time) ==
    r.attempts = <<>> \/ Head(r.attempts).timestamp < cutoff_time

\* not rate_info.attempts or all(a.timestamp < cutoff_time for a in rate_info.attempts)
Stale(r, cutoff_time) ==
    r.attempts = <<>> \/ \A i \in DOMAIN r.attempts : r.attempts[i].timestamp < cutoff_time

\* (the lockout not looked at when the records to remove are collected)
UsersToRemoveLockedToo(cutoff_time, t) ==
    {u \in DOMAIN rate_limit_data : Stale(rate_limit_data[u], cutoff_time)}

\* users_to_remove of _cleanup_rate_limit_data_sync
UsersToRemove(cutoff_time, t) ==
    {u \in DOMAIN rate_limit_data :
        ~is_locked_out(rate_limit_data[u], t) /\ Stale(rate_limit_data[u], cutoff_time)}

\* _cleanup_rate_limit_data_sync after asyncio.sleep(cleanup_interval):
\* cutoff_time = utcnow() - 2 * window; `with _rate_limit_lock:` is entered.
\* A sweep that finds no record to remove changes nothing; it is a step only when
\* every is set.
RateCleanupStart(every) ==
    /\ th[RateLimitCleanup].pc = "idle"
    /\ every \/ UsersToRemove(now - 2 * LOGIN_RATE_WINDOW, now) # {}
    /\ rate_limit_lock = NoThread
    /\ rate_limit_lock' = RateLimitCleanup
    /\ SetFrame(RateLimitCleanup, [LoopFrame(RateLimitCleanup) EXCEPT !.pc = "rl_sweep", !.op = "rl_sweep",
                                                 !.cutoff = now - 2 * LOGIN_RATE_WINDOW])
    /\ UNCHANGED <<now, env, calls, session_vars, authenticated, issued, unchecked,
                   rate_limit_data, session_lock>>

RateCleanupAcquire == RateCleanupStart(FALSE)

RateCleanupAcquireEvery == RateCleanupStart(TRUE)

\* The loop over rate_limit_data.items() and the deletions, inside the lock; the
\* function returns cleaned.  (before is the dict as the sweep found it, kept in the
\* frame until the function has returned, for the properties below.)
RateCleanup ==
    /\ th[RateLimitCleanup].pc = "rl_sweep"
    /\ rate_limit_lock' = Release(rate_limit_lock, RateLimitCleanup)
    /\ LET gone == UsersToRemove(th[RateLimitCleanup].cutoff, now)
       IN  /\ rate_limit_data' =
                  [u \in DOMAIN rate_limit_data \ gone |-> rate_limit_data[u]]
           /\ SetFrame(RateLimitCleanup,
                  [th[RateLimitCleanup] EXCEPT !.pc = "done", !.before = rate_limit_data,
                                               !.res = Res("cleaned", "ok", Cardinality(gone))])
    /\ UNCHANGED <<now, env, calls, session_vars, authenticated, issued, unchecked,
                   session_lock>>

\* ------------------------------------------------------- the reaper loops
\* (the exception let out of the loop: run_until_complete returns and the thread ends)
LoopEnds(t) == [LoopFrame(t) EXCEPT !.pc = "stopped", !.faults = @ + 1]

\* while True: try: await asyncio.sleep(...); sweep() except Exception as e:
\* logger.error(...): the exception is logged and the loop goes on to the next sleep
LoopCatches(t) == [LoopFrame(t) EXCEPT !.faults = @ + 1]

\* An exception is raised inside _cleanup_expired_sessions_sync, at any point of the
\* sweep after the scan (what the sweep has done so far stays done).
SweepFault ==
    /\ th[SessionCleanup].pc \in {"r_next", "c_pop", "c_get", "c_remove", "c_empty", "c_popuser"}
    /\ th[SessionCleanup].faults < MaxFaults
    /\ SetFrame(SessionCleanup, LoopCatches(SessionCleanup))
    /\ UNCHANGED <<now, env, calls, session_vars, authenticated, issued, unchecked,
                   rate_limit_data, session_lock, rate_limit_lock>>

\* An exception is raised inside _cleanup_rate_limit_data_sync, within
\* `with _rate_limit_lock:`, before the deletions: the with-statement releases the lock.
RateCleanupFault ==
    /\ th[RateLimitCleanup].pc = "rl_sweep"
    /\ th[RateLimitCleanup].faults < MaxFaults
    /\ rate_limit_lock' = Release(rate_limit_lock, RateLimitCleanup)
    /\ SetFrame(RateLimitCleanup, LoopCatches(RateLimitCleanup))
    /\ UNCHANGED <<now, env, calls, session_vars, authenticated, issued, unchecked,
                   rate_limit_data, session_lock>>

\* ---------------------------------------------------------- specifications
\* Session ids a caller can present: those login has returned, and one that was
\* never issued.
UnknownSession == 0
KnownIds == issued \cup {UnknownSession}

\* Scheduling.  Two reductions, stated as which thread may take the next step:
\*  - a function that has returned (pc "done" or "l_checked") hands over its result
\*    before any other thread's next step: the return touches nothing shared;
\*  - while a thread is inside `with _rate_limit_lock:` the next step is its own: every
\*    access to rate_limit_data is made under that lock, so no other thread's step
\*    can tell the difference.
Returning(t) == th[t].pc \in {"done", "l_checked"}

Runs(t) ==
    /\ \A u \in Threads \ {t} : ~Returning(u)
    /\ rate_limit_lock \in {NoThread, t}

\* The same for `with _session_lock:` when every access to the session maps is made
\* under it, which is the case when only logins run.
RunsLogin(t) == Runs(t) /\ session_lock \in {NoThread, t}

\* Spec: the session subsystem.  Request threads run login, logout, guarded calls and
\* session_status concurrently with the session reaper; rate limiting is disabled by
\* configuration (LOGIN_MAX_ATTEMPTS = 0), so login's check returns at once.  A run
\* makes at most MaxCalls calls.
Next ==
    \/ Runs(NoThread) /\ Tick
    \/ \E c \in 1..MaxCalls : Runs(NoThread) /\ LoseAuthentication(c)
    \/ \E t \in Workers :
        \/ \E u \in Users : Runs(t) /\ calls < MaxCalls /\ Login(t, u)
        \/ Runs(t) /\ CheckPassed(t)
        \/ \E o \in {"ok", "raises"} : Runs(t) /\ Authenticate(t, o)
        \/ Runs(t) /\ LoginLock(t)
        \/ Runs(t) /\ LoginLimit(t)
        \/ Runs(t) /\ LoginOldest(t)
        \/ Runs(t) /\ LoginStore(t)
        \/ Runs(t) /\ LoginIndex(t)
        \/ Runs(t) /\ LoginAppend(t)
        \/ Runs(t) /\ TrackAcquire(t)
        \/ Runs(t) /\ TrackLoginAttempt(t)
        \/ \E s \in 0..MaxCalls :
               Runs(t) /\ calls < MaxCalls /\ s \in KnownIds /\ Logout(t, s)
        \/ \E s \in 0..MaxCalls :
               Runs(t) /\ calls < MaxCalls /\ s \in KnownIds /\ Validate(t, s)
        \/ Runs(t) /\ ValidateExpired(t)
        \/ Runs(t) /\ ValidateAuthenticated(t)
        \/ Runs(t) /\ ValidateTouch(t)
        \/ \E s \in 0..MaxCalls :
               Runs(t) /\ calls < MaxCalls /\ s \in KnownIds /\ SessionStatus(t, s)
        \/ Runs(t) /\ StatusExpired(t)
        \/ Runs(t) /\ StatusAuthenticated(t)
        \/ \E a \in BOOLEAN, b \in 0..1 : Runs(t) /\ StatusRoundTrip(t, a, b)
        \/ Runs(t) /\ Return(t)
    \/ \E t \in Workers \cup {SessionCleanup} :
        \/ Runs(t) /\ CleanupPop(t)
        \/ Runs(t) /\ CleanupGet(t)
        \/ Runs(t) /\ CleanupRemove(t)
        \/ Runs(t) /\ CleanupEmpty(t)
        \/ Runs(t) /\ CleanupPopUser(t)
    \/ Runs(SessionCleanup) /\ SweepScan
    \/ Runs(SessionCleanup) /\ SweepNext

\* SpecRateLimit: the login path with the rate limiter.  Request threads run logins
\* concurrently with the rate-limit reaper; LOGIN_MAX_ATTEMPTS changes at run time.
\* A run makes at most MaxLogins logins, with one or two concurrent sessions allowed
\* per user; no logout, guarded call, session_status or session reaper runs.
NextRateLimit ==
    \/ RunsLogin(NoThread) /\ Tick
    \/ \E t \in Workers :
        \/ \E u \in Users : RunsLogin(t) /\ calls < MaxLogins /\ Login(t, u)
        \/ \E u \in Users, v \in MaxAttemptsValues :
               RunsLogin(t) /\ calls < MaxLogins /\ SetEnvAndLogin(t, u, v)
        \/ RunsLogin(t) /\ CheckRateLimit(t)
        \/ RunsLogin(t) /\ CheckPassed(t)
        \/ \E o \in {"ok", "raises"} : RunsLogin(t) /\ Authenticate(t, o)
        \/ RunsLogin(t) /\ LoginLock(t)
        \/ RunsLogin(t) /\ LoginLimit(t)
        \/ RunsLogin(t) /\ LoginOldest(t)
        \/ RunsLogin(t) /\ LoginStore(t)
        \/ RunsLogin(t) /\ LoginIndex(t)
        \/ RunsLogin(t) /\ LoginAppend(t)
        \/ RunsLogin(t) /\ TrackAcquire(t)
        \/ RunsLogin(t) /\ TrackLoginAttempt(t)
        \/ RunsLogin(t) /\ CleanupPop(t)
        \/ RunsLogin(t) /\ CleanupGet(t)
        \/ RunsLogin(t) /\ CleanupRemove(t)
        \/ RunsLogin(t) /\ CleanupEmpty(t)
        \/ RunsLogin(t) /\ CleanupPopUser(t)
        \/ RunsLogin(t) /\ Return(t)
    \/ RunsLogin(RateLimitCleanup) /\ RateCleanupAcquire
    \/ RunsLogin(RateLimitCleanup) /\ RateCleanup
    \/ RunsLogin(RateLimitCleanup) /\ Return(RateLimitCleanup)

\* SpecRateCleanup: the rate-limit reaper over a longer time.  The reaper sweeps at
\* any instant, also when it finds nothing to remove, while request threads run at
\* most MaxSweepLogins logins; the clock runs to MaxSweepTime and the lockout lasts
\* longer than twice the rate window, as with the default settings.
NextRateCleanup ==
    \/ RunsLogin(NoThread) /\ Advance(MaxSweepTime)
    \/ \E t \in Workers :
        \/ \E u \in Users : RunsLogin(t) /\ calls < MaxSweepLogins /\ Login(t, u)
        \/ RunsLogin(t) /\ CheckRateLimit(t)
        \/ RunsLogin(t) /\ CheckPassed(t)
        \/ \E o \in {"ok", "raises"} : RunsLogin(t) /\ Authenticate(t, o)
        \/ RunsLogin(t) /\ LoginLock(t)
        \/ RunsLogin(t) /\ LoginLimit(t)
        \/ RunsLogin(t) /\ LoginOldest(t)
        \/ RunsLogin(t) /\ LoginStore(t)
        \/ RunsLogin(t) /\ LoginIndex(t)
        \/ RunsLogin(t) /\ LoginAppend(t)
        \/ RunsLogin(t) /\ TrackAcquire(t)
        \/ RunsLogin(t) /\ TrackLoginAttempt(t)
        \/ RunsLogin(t) /\ CleanupPop(t)
        \/ RunsLogin(t) /\ CleanupGet(t)
        \/ RunsLogin(t) /\ CleanupRemove(t)
        \/ RunsLogin(t) /\ CleanupEmpty(t)
        \/ RunsLogin(t) /\ CleanupPopUser(t)
        \/ RunsLogin(t) /\ Return(t)
    \/ RunsLogin(RateLimitCleanup) /\ RateCleanupAcquireEvery
    \/ RunsLogin(RateLimitCleanup) /\ RateCleanup
    \/ RunsLogin(RateLimitCleanup) /\ Return(RateLimitCleanup)

\* SpecHosts: the login path with hosts of every kind.  Request threads run at most
\* MaxHostLogins logins to secure, plain and empty hosts, with ALLOW_HTTP_TAIGA at any
\* of its values, rate limiting on or off and one session allowed per user; the clock
\* stands still and no reaper runs.
NextHosts ==
    \E t \in Workers :
        \/ \E u \in Users, h \in Hosts :
               RunsLogin(t) /\ calls < MaxHostLogins /\ LoginTo(t, u, h)
        \/ RunsLogin(t) /\ CheckRateLimit(t)
        \/ RunsLogin(t) /\ CheckPassed(t)
        \/ \E o \in {"ok", "raises"} : RunsLogin(t) /\ Authenticate(t, o)
        \/ RunsLogin(t) /\ LoginLock(t)
        \/ RunsLogin(t) /\ LoginLimit(t)
        \/ RunsLogin(t) /\ LoginOldest(t)
        \/ RunsLogin(t) /\ LoginStore(t)
        \/ RunsLogin(t) /\ LoginIndex(t)
        \/ RunsLogin(t) /\ LoginAppend(t)
        \/ RunsLogin(t) /\ TrackAcquire(t)
        \/ RunsLogin(t) /\ TrackLoginAttempt(t)
        \/ RunsLogin(t) /\ CleanupPop(t)
        \/ RunsLogin(t) /\ CleanupGet(t)
        \/ RunsLogin(t) /\ CleanupRemove(t)
        \/ RunsLogin(t) /\ CleanupEmpty(t)
        \/ RunsLogin(t) /\ CleanupPopUser(t)
        \/ RunsLogin(t) /\ Return(t)

\* SpecTools: the session-bearing tools.  Request threads run at most MaxToolCalls
\* logins and tool calls while the clock runs and tokens are lost; rate limiting is
\* disabled and one session is allowed per user.
NextTools ==
    \/ Runs(NoThread) /\ Tick
    \/ \E c \in 1..MaxToolCalls : Runs(NoThread) /\ LoseAuthentication(c)
    \/ \E t \in Workers :
        \/ \E u \in Users : Runs(t) /\ calls < MaxToolCalls /\ Login(t, u)
        \/ Runs(t) /\ CheckPassed(t)
        \/ \E o \in {"ok", "raises"} : Runs(t) /\ Authenticate(t, o)
        \/ Runs(t) /\ LoginLock(t)
        \/ Runs(t) /\ LoginLimit(t)
        \/ Runs(t) /\ LoginOldest(t)
        \/ Runs(t) /\ LoginStore(t)
        \/ Runs(t) /\ LoginIndex(t)
        \/ Runs(t) /\ LoginAppend(t)
        \/ Runs(t) /\ TrackAcquire(t)
        \/ Runs(t) /\ TrackLoginAttempt(t)
        \/ \E tool \in Tools, s \in 0..MaxToolCalls, r \in Ids, u \in Ids :
               /\ Runs(t) /\ calls < MaxToolCalls /\ s \in KnownIds
               /\ ToolCall(t, tool, s, r, u)
        \/ Runs(t) /\ AssignValidate(t)
        \/ Runs(t) /\ GuardGet(t)
        \/ Runs(t) /\ ValidateExpired(t)
        \/ Runs(t) /\ ValidateAuthenticated(t)
        \/ Runs(t) /\ ValidateTouch(t)
        \/ Runs(t) /\ UpdateValidate(t)
        \/ \E o \in {"ok", "raises"} : Runs(t) /\ UpdateClient(t, o)
        \/ Runs(t) /\ CleanupPop(t)
        \/ Runs(t) /\ CleanupGet(t)
        \/ Runs(t) /\ CleanupRemove(t)
        \/ Runs(t) /\ CleanupEmpty(t)
        \/ Runs(t) /\ CleanupPopUser(t)
        \/ Runs(t) /\ Return(t)

\* SpecUsers: the logins of two users.  Request threads run at most MaxUserLogins
\* logins of alice and bob concurrently, with no limit on the sessions of a user or a
\* limit of 1 or 2; rate limiting is disabled, the clock stands still and nothing but
\* logins runs.
NextUsers ==
    \E t \in Workers :
        \/ \E u \in TwoUsers : RunsLogin(t) /\ calls < MaxUserLogins /\ Login(t, u)
        \/ RunsLogin(t) /\ CheckPassed(t)
        \/ \E o \in {"ok", "raises"} : RunsLogin(t) /\ Authenticate(t, o)
        \/ RunsLogin(t) /\ LoginLock(t)
        \/ RunsLogin(t) /\ LoginLimit(t)
        \/ RunsLogin(t) /\ LoginOldest(t)
        \/ RunsLogin(t) /\ LoginStore(t)
        \/ RunsLogin(t) /\ LoginIndex(t)
        \/ RunsLogin(t) /\ LoginAppend(t)
        \/ RunsLogin(t) /\ TrackAcquire(t)
        \/ RunsLogin(t) /\ TrackLoginAttempt(t)
        \/ RunsLogin(t) /\ CleanupPop(t)
        \/ RunsLogin(t) /\ CleanupGet(t)
        \/ RunsLogin(t) /\ CleanupRemove(t)
        \/ RunsLogin(t) /\ CleanupEmpty(t)
        \/ RunsLogin(t) /\ CleanupPopUser(t)
        \/ RunsLogin(t) /\ Return(t)

\* SpecOutcomes: the login path with every outcome of the credential check.  Request
\* threads run at most MaxOutcomeLogins logins whose wrapper.login returns True,
\* returns False or raises; rate limiting is on or off, one session is allowed per
\* user and the clock stands still.
NextOutcomes ==
    \E t \in Workers :
        \/ \E u \in Users : RunsLogin(t) /\ calls < MaxOutcomeLogins /\ Login(t, u)
        \/ RunsLogin(t) /\ CheckRateLimit(t)
        \/ RunsLogin(t) /\ CheckPassed(t)
        \/ \E o \in {"ok", "raises", "false"} : RunsLogin(t) /\ Authenticate(t, o)
        \/ RunsLogin(t) /\ LoginLock(t)
        \/ RunsLogin(t) /\ LoginLimit(t)
        \/ RunsLogin(t) /\ LoginOldest(t)
        \/ RunsLogin(t) /\ LoginStore(t)
        \/ RunsLogin(t) /\ LoginIndex(t)
        \/ RunsLogin(t) /\ LoginAppend(t)
        \/ RunsLogin(t) /\ TrackAcquire(t)
        \/ RunsLogin(t) /\ TrackLoginAttempt(t)
        \/ RunsLogin(t) /\ CleanupPop(t)
        \/ RunsLogin(t) /\ CleanupGet(t)
        \/ RunsLogin(t) /\ CleanupRemove(t)
        \/ RunsLogin(t) /\ CleanupEmpty(t)
        \/ RunsLogin(t) /\ CleanupPopUser(t)
        \/ RunsLogin(t) /\ Return(t)

\* SpecLockout: the life of a lockout.  Request threads run at most MaxLockoutLogins
\* logins with rate limiting on while the clock runs to MaxLockoutTime; the logins are
\* made early enough for a lockout set by any of them to run out, and the failures
\* behind it to leave the window, before the clock stops.  Every thread that can take
\* a step eventually takes one and the clock keeps moving (to its last instant).
LoginInTime == now + LOGIN_LOCKOUT_DURATION + LOGIN_RATE_WINDOW <= MaxLockoutTime

NextLockout ==
    \/ RunsLogin(NoThread) /\ Advance(MaxLockoutTime)
    \/ \E t \in Workers :
        \/ \E u \in Users :
               RunsLogin(t) /\ calls < MaxLockoutLogins /\ LoginInTime /\ Login(t, u)
        \/ RunsLogin(t) /\ CheckRateLimit(t)
        \/ RunsLogin(t) /\ CheckPassed(t)
        \/ \E o \in {"ok", "raises"} : RunsLogin(t) /\ Authenticate(t, o)
        \/ RunsLogin(t) /\ LoginLock(t)
        \/ RunsLogin(t) /\ LoginLimit(t)
        \/ RunsLogin(t) /\ LoginOldest(t)
        \/ RunsLogin(t) /\ LoginStore(t)
        \/ RunsLogin(t) /\ LoginIndex(t)
        \/ RunsLogin(t) /\ LoginAppend(t)
        \/ RunsLogin(t) /\ TrackAcquire(t)
        \/ RunsLogin(t) /\ TrackLoginAttempt(t)
        \/ RunsLogin(t) /\ CleanupPop(t)
        \/ RunsLogin(t) /\ CleanupGet(t)
        \/ RunsLogin(t) /\ CleanupRemove(t)
        \/ RunsLogin(t) /\ CleanupEmpty(t)
        \/ RunsLogin(t) /\ CleanupPopUser(t)
        \/ RunsLogin(t) /\ Return(t)

\* SpecExpiry: the session reaper's progress.  Request threads run at most
\* MaxExpiryLogins logins (rate limiting off) while the clock runs and the session
\* reaper sweeps; no request names a session once login has returned it.
SessionReaperStep ==
    /\ Runs(SessionCleanup)
    /\ \/ SweepScan
       \/ SweepNext
       \/ CleanupPop(SessionCleanup)
       \/ CleanupGet(SessionCleanup)
       \/ CleanupRemove(SessionCleanup)
       \/ CleanupEmpty(SessionCleanup)
       \/ CleanupPopUser(SessionCleanup)

NextExpiry ==
    \/ Runs(NoThread) /\ Tick
    \/ \E t \in Workers :
        \/ \E u \in Users : Runs(t) /\ calls < MaxExpiryLogins /\ Login(t, u)
        \/ Runs(t) /\ CheckPassed(t)
        \/ \E o \in {"ok", "raises"} : Runs(t) /\ Authenticate(t, o)
        \/ Runs(t) /\ LoginLock(t)
        \/ Runs(t) /\ LoginLimit(t)
        \/ Runs(t) /\ LoginOldest(t)
        \/ Runs(t) /\ LoginStore(t)
        \/ Runs(t) /\ LoginIndex(t)
        \/ Runs(t) /\ LoginAppend(t)
        \/ Runs(t) /\ TrackAcquire(t)
        \/ Runs(t) /\ TrackLoginAttempt(t)
        \/ Runs(t) /\ Return(t)
    \/ \E t \in Workers \cup {SessionCleanup} :
        \/ Runs(t) /\ CleanupPop(t)
        \/ Runs(t) /\ CleanupGet(t)
        \/ Runs(t) /\ CleanupRemove(t)
        \/ Runs(t) /\ CleanupEmpty(t)
        \/ Runs(t) /\ CleanupPopUser(t)
    \/ Runs(SessionCleanup) /\ SweepScan
    \/ Runs(SessionCleanup) /\ SweepNext

\* SpecLocks: the two locks.  Request threads run at most MaxLockLogins logins with
\* rate limiting on, concurrently with both reapers, while the clock runs to
\* MaxSweepTime; logins are rejected, fail and raise inside their critical sections,
\* and sweeps of the rate-limit reaper raise inside theirs.
LockStep ==
    \/ \E t \in Workers :
        \/ \E u \in Users : Runs(t) /\ calls < MaxLockLogins /\ Login(t, u)
        \/ Runs(t) /\ CheckRateLimit(t)
        \/ Runs(t) /\ CheckPassed(t)
        \/ \E o \in {"ok", "raises"} : Runs(t) /\ Authenticate(t, o)
        \/ Runs(t) /\ LoginLock(t)
        \/ Runs(t) /\ LoginLimit(t)
        \/ Runs(t) /\ LoginOldest(t)
        \/ Runs(t) /\ LoginStore(t)
        \/ Runs(t) /\ LoginIndex(t)
        \/ Runs(t) /\ LoginAppend(t)
        \/ Runs(t) /\ TrackAcquire(t)
        \/ Runs(t) /\ TrackLoginAttempt(t)
        \/ Runs(t) /\ Return(t)
    \/ \E t \in Workers \cup {SessionCleanup} :
        \/ Runs(t) /\ CleanupPop(t)
        \/ Runs(t) /\ CleanupGet(t)
        \/ Runs(t) /\ CleanupRemove(t)
        \/ Runs(t) /\ CleanupEmpty(t)
        \/ Runs(t) /\ CleanupPopUser(t)
    \/ Runs(SessionCleanup) /\ SweepScan
    \/ Runs(SessionCleanup) /\ SweepNext
    \/ Runs(RateLimitCleanup) /\ RateCleanupAcquire
    \/ Runs(RateLimitCleanup) /\ RateCleanup
    \/ Runs(RateLimitCleanup) /\ RateCleanupFault
    \/ Runs(RateLimitCleanup) /\ Return(RateLimitCleanup)

NextLocks ==
    \/ Runs(NoThread) /\ Advance(MaxSweepTime)
    \/ LockStep

\* SpecTTL: the session TTL.  Request threads run at most MaxTTLLogins logins (rate
\* limiting off) with SESSION_EXPIRY at any of TTLValues when a session is created,
\* while the clock runs; no other call and no reaper runs.
NextTTL ==
    \/ RunsLogin(NoThread) /\ Tick
    \/ \E t \in Workers :
        \/ \E u \in Users : RunsLogin(t) /\ calls < MaxTTLLogins /\ Login(t, u)
        \/ RunsLogin(t) /\ CheckPassed(t)
        \/ \E o \in {"ok", "raises"} : RunsLogin(t) /\ Authenticate(t, o)
        \/ RunsLogin(t) /\ LoginLock(t)
        \/ RunsLogin(t) /\ LoginLimit(t)
        \/ RunsLogin(t) /\ LoginOldest(t)
        \/ \E ttl \in TTLValues : RunsLogin(t) /\ LoginStoreWith(t, ttl)
        \/ RunsLogin(t) /\ LoginIndex(t)
        \/ RunsLogin(t) /\ LoginAppend(t)
        \/ RunsLogin(t) /\ TrackAcquire(t)
        \/ RunsLogin(t) /\ TrackLoginAttempt(t)
        \/ RunsLogin(t) /\ CleanupPop(t)
        \/ RunsLogin(t) /\ CleanupGet(t)
        \/ RunsLogin(t) /\ CleanupRemove(t)
        \/ RunsLogin(t) /\ CleanupEmpty(t)
        \/ RunsLogin(t) /\ CleanupPopUser(t)
        \/ RunsLogin(t) /\ Return(t)

\* SpecLoops: the two reaper loops.  Request threads run at most MaxLoopLogins logins
\* (rate limiting off) while the clock runs to MaxSweepTime and both reapers sweep;
\* at most MaxFaults sweeps of each reaper raise.
NextLoops ==
    \/ Runs(NoThread) /\ Advance(MaxSweepTime)
    \/ \E t \in Workers :
        \/ \E u \in Users : Runs(t) /\ calls < MaxLoopLogins /\ Login(t, u)
        \/ Runs(t) /\ CheckPassed(t)
        \/ \E o \in {"ok", "raises"} : Runs(t) /\ Authenticate(t, o)
        \/ Runs(t) /\ LoginLock(t)
        \/ Runs(t) /\ LoginLimit(t)
        \/ Runs(t) /\ LoginOldest(t)
        \/ Runs(t) /\ LoginStore(t)
        \/ Runs(t) /\ LoginIndex(t)
        \/ Runs(t) /\ LoginAppend(t)
        \/ Runs(t) /\ TrackAcquire(t)
        \/ Runs(t) /\ TrackLoginAttempt(t)
        \/ Runs(t) /\ Return(t)
    \/ \E t \in Workers \cup {SessionCleanup} :
        \/ Runs(t) /\ CleanupPop(t)
        \/ Runs(t) /\ CleanupGet(t)
        \/ Runs(t) /\ CleanupRemove(t)
        \/ Runs(t) /\ CleanupEmpty(t)
        \/ Runs(t) /\ CleanupPopUser(t)
    \/ Runs(SessionCleanup) /\ SweepScan
    \/ Runs(SessionCleanup) /\ SweepNext
    \/ Runs(SessionCleanup) /\ SweepFault
    \/ Runs(RateLimitCleanup) /\ RateCleanupAcquire
    \/ Runs(RateLimitCleanup) /\ RateCleanup
    \/ Runs(RateLimitCleanup) /\ RateCleanupFault
    \/ Runs(RateLimitCleanup) /\ Return(RateLimitCleanup)

InitSessions ==
    /\ Init
    /\ env.LOGIN_MAX_ATTEMPTS = 0
    /\ env.MAX_CONCURRENT_SESSIONS = 1
    /\ env.LOGIN_LOCKOUT_DURATION = 2
    /\ env.ALLOW_HTTP_TAIGA = "false"

Spec == InitSessions /\ [][Next]_vars

InitLogins ==
    /\ Init
    /\ env.MAX_CONCURRENT_SESSIONS \in MaxSessionsValues
    /\ env.LOGIN_LOCKOUT_DURATION = 2
    /\ env.ALLOW_HTTP_TAIGA = "false"

SpecRateLimit == InitLogins /\ [][NextRateLimit]_vars

InitRateCleanup ==
    /\ Init
    /\ env.LOGIN_MAX_ATTEMPTS = 1
    /\ env.MAX_CONCURRENT_SESSIONS = 1
    /\ env.LOGIN_LOCKOUT_DURATION = 3
    /\ env.ALLOW_HTTP_TAIGA = "false"

SpecRateCleanup == InitRateCleanup /\ [][NextRateCleanup]_vars

InitHosts ==
    /\ Init
    /\ env.MAX_CONCURRENT_SESSIONS = 1
    /\ env.LOGIN_LOCKOUT_DURATION = 2

SpecHosts == InitHosts /\ [][NextHosts]_vars

SpecTools == InitSessions /\ [][NextTools]_vars

InitUsers ==
    /\ Init
    /\ env.LOGIN_MAX_ATTEMPTS = 0
    /\ env.LOGIN_LOCKOUT_DURATION = 2
    /\ env.ALLOW_HTTP_TAIGA = "false"

SpecUsers == InitUsers /\ [][NextUsers]_vars

InitOutcomes ==
    /\ Init
    /\ env.MAX_CONCURRENT_SESSIONS = 1
    /\ env.LOGIN_LOCKOUT_DURATION = 2
    /\ env.ALLOW_HTTP_TAIGA = "false"

SpecOutcomes == InitOutcomes /\ [][NextOutcomes]_vars

InitLockout ==
    /\ Init
    /\ env.LOGIN_MAX_ATTEMPTS = 1
    /\ env.MAX_CONCURRENT_SESSIONS = 1
    /\ env.LOGIN_LOCKOUT_DURATION = 2
    /\ env.ALLOW_HTTP_TAIGA = "false"

SpecLockout == InitLockout /\ [][NextLockout]_vars /\ WF_vars(NextLockout)

\* Every thread that can take a step eventually takes one, and the reaper loop keeps
\* being scheduled: a sweep that has work to do is eventually made and finished.
SpecExpiry ==
    InitSessions /\ [][NextExpiry]_vars /\ WF_vars(NextExpiry) /\ WF_vars(SessionReaperStep)

SpecTTL == InitSessions /\ [][NextTTL]_vars

SpecLocks == InitLockout /\ [][NextLocks]_vars

\* Every thread that can take a step eventually takes one.
SpecLoops == InitSessions /\ [][NextLoops]_vars /\ WF_vars(NextLoops)

\* =============================================================== properties
\* No request is in progress and no reaper is inside a sweep.
Quiescent == \A t \in Threads : th[t].pc = "idle"

\* The session ids listed under username in sessions_by_user
UserSessions(username) ==
    IF username \in DOMAIN sessions_by_user
    THEN list_objs[sessions_by_user[username]] ELSE <<>>

\* The sessions in active_sessions whose SessionInfo.username is username
ActiveOf(username) == {s \in active_sessions : session_info[s].username = username}

\* sessions_by_user and active_sessions describe the same sessions
IndexConsistent ==
    /\ \A u \in DOMAIN sessions_by_user :
         /\ UserSessions(u) # <<>>
         /\ \A i \in DOMAIN UserSessions(u) : UserSessions(u)[i] \in ActiveOf(u)
    /\ \A s \in active_sessions : InList(UserSessions(session_info[s].username), s)

\* C1: whenever no operation is in progress, the session map and the user index agree:
\* every id in a user's list is a key of the session map owned by that user, every key
\* of the session map is in its owner's list, and no username maps to an empty list.
C1_IndexAgrees == Quiescent => IndexConsistent

\* A guarded call has ended in thread t (its result is in th[t].res).
Validated(t) == th[t].pc = "done" /\ th[t].op = "validate"

\* C2 as stated: a guarded call made for a session whose expires_at has passed fails
\* with an "expired" authorization failure, and the session is not in the store.
C2_ExpiredAlwaysReported ==
    \A t \in Workers :
        Validated(t) /\ th[t].late =>
            /\ th[t].res = Res("PermissionError", "expired", 0)
            /\ th[t].sid \notin active_sessions

\* C2, amended: a guarded call made for a session whose expires_at has passed never
\* returns the client; it fails with an authorization failure, "expired" or (the
\* session already purged) "invalid session", and the session is not in the store.
C2_ExpiredNeverValid ==
    \A t \in Workers :
        Validated(t) /\ th[t].late =>
            /\ th[t].res \in {Res("PermissionError", "expired", 0),
                              Res("PermissionError", "invalid", 0)}
            /\ th[t].sid \notin active_sessions

\* A guarded call found an expired session in the store, purged it and failed.
C2_Witness ==
    \E t \in Workers :
        /\ Validated(t) /\ th[t].late
        /\ th[t].res.reason = "expired"
        /\ th[t].sid \notin active_sessions

\* The sessions login has created for username (session ids are numbered in the
\* order of creation).
CreatedFor(username) ==
    {s \in DOMAIN session_info : session_info[s].username = username}

\* No login is in progress.
NoLoginRunning == \A t \in Workers : th[t].pc = "idle"

\* Thread t, inside login, has picked oldest_session_id and is about to destroy it.
Evicting(t) == th[t].op = "login" /\ th[t].pc = "c_pop"

\* C3: with a concurrent-session limit L > 0 and nothing but logins running, once
\* L + 1 or more logins of a user have succeeded exactly L of the user's sessions are
\* active and they are the L most recently created; at each eviction point the
\* session picked is the least recently created active session of the user, the one
\* at index 0 of the user's list.
C3_EvictsOldest ==
    LET L == env.MAX_CONCURRENT_SESSIONS
    IN  /\ NoLoginRunning =>
            \A u \in Users :
                Cardinality(CreatedFor(u)) >= L + 1 =>
                    /\ Cardinality(ActiveOf(u)) = L
                    /\ \A a \in ActiveOf(u) : \A e \in CreatedFor(u) \ ActiveOf(u) : e < a
        /\ \A t \in Workers :
            Evicting(t) =>
                /\ th[t].csid = UserSessions(th[t].user)[1]
                /\ th[t].csid \in ActiveOf(th[t].user)
                /\ \A s \in ActiveOf(th[t].user) : th[t].csid <= s

\* Three logins of one user have succeeded under a limit of two: the first session
\* was evicted and the two newest are active.
C3_Witness ==
    /\ NoLoginRunning
    /\ env.MAX_CONCURRENT_SESSIONS = 2
    /\ \E u \in Users :
        /\ Cardinality(CreatedFor(u)) = 3
        /\ ActiveOf(u) = {2, 3}

\* ---- the rate limiter
\* _check_rate_limit has just returned (Passed) or raised (Rejected) in thread t; what
\* it found under the username is th[t].found.
Passed(t) == th[t].op = "login" /\ th[t].pc = "l_checked"
Rejected(t) ==
    th[t].op = "login" /\ th[t].pc = "done" /\ th[t].res.tag = "PermissionError"
Checked(t) == Passed(t) \/ Rejected(t)

\* The number of failed attempts of record r inside the rate window that ends at t
FailuresInWindow(r, t) ==
    Cardinality({i \in DOMAIN r.attempts :
                    ~r.attempts[i].success /\ r.attempts[i].timestamp >= t - LOGIN_RATE_WINDOW})

\* Record r carries a lockout that has not run out at t
LockedOut(r, t) == r.locked_until # None /\ t < r.locked_until

\* The check in thread t is the next one after a failed attempt was tracked, and it
\* found max_attempts or more failed attempts inside the window.
ThresholdFound(t) ==
    /\ Checked(t)
    /\ th[t].max_attempts > 0
    /\ th[t].found.present
    /\ FailuresInWindow(th[t].found.info, now) >= th[t].max_attempts

TrackedSuccess(t) ==
    th[t].op = "login" /\ th[t].pc = "done" /\ th[t].res.tag = "session_id"

NoFailure(r) == \A i \in DOMAIN r.attempts : r.attempts[i].success

\* C5: a tracked successful attempt, whatever the record held before, leaves the user
\* with no lockout expiry and with successful attempts only, the new one last; tracking
\* a second success leaves the lockout and the failures as they are (none).
C5_SuccessForgives ==
    \A t \in Workers :
        TrackedSuccess(t) =>
            LET r == rate_limit_data[th[t].user]
                again == TrackRecord(r, th[t].user, TRUE, now)
            IN  /\ r.locked_until = None
                /\ NoFailure(r)
                /\ r.attempts # <<>>
                /\ r.attempts[Len(r.attempts)] = LoginAttempt(now, th[t].user, TRUE)
                /\ again.locked_until = r.locked_until
                /\ NoFailure(again)

\* A success was tracked on a record that was locked out and held a failed attempt.
C5_Witness ==
    \E t \in Workers :
        /\ TrackedSuccess(t)
        /\ th[t].found.present
        /\ LockedOut(th[t].found.info, now)
        /\ ~NoFailure(th[t].found.info)
        /\ rate_limit_data[th[t].user].locked_until = None

\* The check in thread t comes after k failed attempts made in a row inside one rate
\* window, none of them rejected by the rate limiter: the record holds those k failed
\* attempts and nothing else.
AfterFailures(t, k) ==
    /\ Checked(t)
    /\ th[t].max_attempts > 0
    /\ IF th[t].found.present
       THEN /\ th[t].found.info.locked_until = None
            /\ Len(th[t].found.info.attempts) = k
            /\ FailuresInWindow(th[t].found.info, now) = k
       ELSE k = 0

\* C6: with max_attempts = N > 0 and failing attempts made one after the other inside
\* one rate window, every attempt up to the N-th passes the rate limiter and goes on to
\* the credential check; the (N+1)-th is rejected with a lockout, the first one to be.
C6_LockoutAfterNth ==
    \A t \in Workers : \A k \in 0..MaxLogins :
        AfterFailures(t, k) =>
            IF k < th[t].max_attempts
            THEN Passed(t)
            ELSE Rejected(t) /\ th[t].res.reason = "threshold"

\* The attempt after N failed ones is rejected with a lockout.
C6_Witness ==
    \E t \in Workers :
        /\ AfterFailures(t, th[t].max_attempts)
        /\ Rejected(t)

\* Thread t's login was stopped by the rate limiter before TaigaClientWrapper was
\* constructed: no client login was invoked and no session was created.
StoppedBeforeCredentials(t) ==
    /\ Rejected(t)
    /\ th[t].wrapper = 0
    /\ th[t].new_sid = 0
    /\ \A s \in DOMAIN session_info : session_info[s].client # th[t].call

\* C9 as stated: a login for a username that is locked out fails with an authorization
\* failure before any credential check: the client's login is not invoked and no
\* session is created.
C9_LockedOutNeverProceeds ==
    \A t \in Workers :
        Checked(t) /\ LockedOut(th[t].found.info, now) => StoppedBeforeCredentials(t)

\* C9, amended: while rate limiting is enabled (max_attempts > 0), a login for a
\* username that is locked out fails with an authorization failure carrying the
\* remaining lockout time in whole seconds, before any credential check: the client's login is not
\* invoked and no session is created.
C9_LockedOutRejected ==
    \A t \in Workers :
        Checked(t) /\ th[t].max_attempts > 0 /\ LockedOut(th[t].found.info, now) =>
            /\ StoppedBeforeCredentials(t)
            /\ \E behind \in 0..1 :
                   th[t].res = Res("PermissionError", "locked_out",
                                   WholeSeconds(th[t].found.info.locked_until - now, behind))

\* A login for a locked-out username was rejected.
C9_Witness ==
    \E t \in Workers :
        /\ Checked(t) /\ th[t].max_attempts > 0 /\ LockedOut(th[t].found.info, now)
        /\ StoppedBeforeCredentials(t)

\* C10: with LOGIN_MAX_ATTEMPTS = 0 when the check is made, the check succeeds
\* whatever failed attempts and lockout expiry are stored, and changes nothing; every
\* check works with the setting as it is at that call.
C10_DisabledBypasses ==
    \A t \in Workers :
        Checked(t) =>
            /\ th[t].max_attempts = env.LOGIN_MAX_ATTEMPTS
            /\ env.LOGIN_MAX_ATTEMPTS = 0 =>
                   /\ Passed(t)
                   /\ Found(th[t].user).present = th[t].found.present
                   /\ Found(th[t].user).info = th[t].found.info

\* With rate limiting disabled a check passed for a user who is locked out on a failed
\* attempt.
C10_Witness ==
    \E t \in Workers :
        /\ Passed(t)
        /\ env.LOGIN_MAX_ATTEMPTS = 0
        /\ LockedOut(th[t].found.info, now)
        /\ FailuresInWindow(th[t].found.info, now) >= 1

\* C11: a check that finds a lockout expiry in the past does not reject because of
\* that lockout; with fewer than max_attempts failed attempts inside the window it
\* passes and the record, its old lockout expiry included, is still stored (the login
\* then goes on to the credentials and can succeed).
C11_LapsedLockoutPasses ==
    \A t \in Workers :
        Checked(t) /\ th[t].max_attempts > 0 /\ th[t].found.present
                   /\ Lapsed(th[t].found.info, now) =>
            /\ th[t].res.reason # "locked_out"
            /\ FailuresInWindow(th[t].found.info, now) < th[t].max_attempts =>
                   /\ Passed(t)
                   /\ th[t].user \in DOMAIN rate_limit_data
                   /\ rate_limit_data[th[t].user].locked_until =
                          th[t].found.info.locked_until

\* A login whose check passed on a record with a lapsed lockout has succeeded.
C11_Witness ==
    \E t \in Workers : TrackedSuccess(t) /\ th[t].lapsed /\ th[t].max_attempts > 0

\* ---- the transport check
\* login has returned or raised in thread t.
LoginEnded(t) == th[t].op = "login" /\ th[t].pc = "done"

\* The host given to thread t's login is a URL that does not use https.
PlainTransport(t) == th[t].host.scheme = "http://"

\* ALLOW_HTTP_TAIGA is set to true (in any letter case).
Override == env.ALLOW_HTTP_TAIGA \in {"true", "TRUE"}

\* No session holds the client of thread t's login.
NoSessionOf(t) == \A s \in DOMAIN session_info : session_info[s].client # th[t].call

\* C17: a login to a host that does not use https is rejected before any credential
\* verification (TaigaClient is neither instantiated nor called, and no session is
\* created), unless ALLOW_HTTP_TAIGA is true: then the login goes on to the
\* credential verification like a login to an https host (the rate limiter permitting).
C17_PlainHostRejected ==
    \A t \in Workers :
        LoginEnded(t) /\ PlainTransport(t) =>
            IF Override
            THEN th[t].api \/ Rejected(t)
            ELSE /\ th[t].res.tag \in {"ValueError", "PermissionError"}
                 /\ ~th[t].api
                 /\ NoSessionOf(t)

\* A login to a plain-http host passed the rate limiter and was rejected with
\* ValueError, no API client made.
C17_Witness ==
    \E t \in Workers :
        /\ LoginEnded(t) /\ PlainTransport(t) /\ ~Override
        /\ th[t].res = Res("ValueError", "https_required", 0)
        /\ ~th[t].api

\* With the override set a login to a plain-http host has succeeded.
PlainHostAllowed ==
    \E t \in Workers :
        /\ LoginEnded(t) /\ PlainTransport(t) /\ Override
        /\ th[t].api /\ th[t].res.tag = "session_id"

\* ---- the rate-limit reaper
\* A sweep of the rate-limit reaper has returned: th[RateLimitCleanup].before is the
\* dict it found and th[RateLimitCleanup].res.num its return value.
RateSwept == th[RateLimitCleanup].pc = "done"

\* Every attempt of record r was made more than twice the rate window before t
\* (true of a record with no attempts).
AllOlderThanTwoWindows(r, t) ==
    \A i \in DOMAIN r.attempts : t - r.attempts[i].timestamp > 2 * LOGIN_RATE_WINDOW

\* C13: a sweep of the rate-limit reaper removes a username's record if and only if
\* the record is not locked out and has no attempt, or only attempts older than twice
\* the rate window; a record with a lockout in force is never removed, the records
\* kept are left as they were, and the sweep returns the number of records removed.
C13_SweepEvictsStale ==
    RateSwept =>
        LET before == th[RateLimitCleanup].before
            removed == DOMAIN before \ DOMAIN rate_limit_data
        IN  /\ DOMAIN rate_limit_data \subseteq DOMAIN before
            /\ \A u \in DOMAIN before :
                   /\ u \in removed <=>
                          ~LockedOut(before[u], now) /\ AllOlderThanTwoWindows(before[u], now)
                   /\ LockedOut(before[u], now) => u \notin removed
                   /\ u \notin removed => rate_limit_data[u] = before[u]
            /\ th[RateLimitCleanup].res.num = Cardinality(removed)

\* A sweep removed a record that held a failed attempt older than twice the rate
\* window and a lockout that had run out.
C13_Witness ==
    /\ RateSwept
    /\ \E u \in DOMAIN th[RateLimitCleanup].before :
           LET r == th[RateLimitCleanup].before[u]
           IN  /\ r.attempts # <<>>
               /\ Lapsed(r, now)
               /\ u \notin DOMAIN rate_limit_data

\* A sweep found a record with a lockout in force whose attempts were all older than
\* twice the rate window, and kept it.
SweepSkippedLockout ==
    /\ RateSwept
    /\ \E u \in DOMAIN th[RateLimitCleanup].before :
           LET r == th[RateLimitCleanup].before[u]
           IN  /\ LockedOut(r, now)
               /\ r.attempts # <<>>
               /\ AllOlderThanTwoWindows(r, now)
               /\ u \in DOMAIN rate_limit_data

\* ---- the session reaper
\* The sweep has visited every session it collected and is about to return.
SweepEnds == th[SessionCleanup].pc = "r_next" /\ th[SessionCleanup].expired = <<>>

\* The reaper is inside _cleanup_session and has popped a session.
SweepRemoved == th[SessionCleanup].pc \in {"c_get", "c_remove", "c_empty", "c_popuser"}

\* At the end of a sweep no session that had expired when the snapshot was taken is
\* in the store, and the return value is the number of sessions collected.
SweepRemovesExpired ==
    SweepEnds =>
        LET f == th[SessionCleanup]
            due == {s \in DOMAIN session_info : session_info[s].expires_at <= f.at}
        IN  /\ due \cap active_sessions = {}
            /\ \A i \in DOMAIN f.collected : f.collected[i] \in due
            /\ SweepResult(f) = Len(f.collected)
            /\ SweepResult(f) <= Cardinality(due)

\* A session the reaper removes has expired.
SweepSparesLive ==
    SweepRemoved =>
        /\ th[SessionCleanup].csid \notin active_sessions
        /\ session_info[th[SessionCleanup].csid].expires_at <= now

\* Session s was stored by a login that has yet to look the username up in
\* sessions_by_user (it will make the entry it does not find).
NotYetIndexed(s) == \E t \in Workers : th[t].pc = "l_index" /\ th[t].new_sid = s

\* A step of the reaper that removes a username from sessions_by_user removes no
\* username that owns a session in active_sessions, a session not yet indexed apart.
SweepKeepsIndex ==
    (/\ th'[SessionCleanup] # th[SessionCleanup]
     /\ sessions_by_user' # sessions_by_user)
    => \A u \in DOMAIN sessions_by_user \ DOMAIN sessions_by_user' :
           \A s \in ActiveOf(u) : NotYetIndexed(s)

\* C12: a sweep of the session reaper removes every session that was expired when it
\* took its snapshot and no session that is not expired, logins and logouts running
\* at the same time; it returns the number of sessions it collected, and it leaves the
\* index entries of the users who still have sessions as the session map has them.
C12_SweepExact ==
    /\ [](SweepRemovesExpired /\ SweepSparesLive)
    /\ [][SweepKeepsIndex]_vars

\* ---- the session guard and the locks
\* C7: a guarded call for a session that is in the store, has not expired and whose
\* client is still authenticated (as is a session validated right after its creation)
\* returns exactly the client handle stored at creation, and afterwards the session's
\* last_accessed is at or after its created_at.
C7_RoundTrip ==
    \A t \in Workers :
        Validated(t) /\ th[t].sid \in DOMAIN session_info =>
            LET s == session_info[th[t].sid]
            IN  /\ th[t].res.tag = "client" => th[t].res.num = s.client
                /\ (/\ th[t].res.reason # "invalid"
                    /\ now < s.expires_at
                    /\ s.client \in authenticated)
                   => /\ th[t].res = Res("client", "ok", s.client)
                      /\ s.last_accessed >= s.created_at

\* A session was validated at the instant of its creation and its client returned.
C7_Witness ==
    \E t \in Workers :
        /\ Validated(t)
        /\ th[t].res.tag = "client"
        /\ session_info[th[t].sid].created_at = now
        /\ th[t].res.num = session_info[th[t].sid].client

\* Session s is listed under some username of sessions_by_user.
Indexed(s) == \E u \in DOMAIN sessions_by_user : InList(UserSessions(u), s)

\* A thread other than t is inside _cleanup_session(s): it has popped s from
\* active_sessions and has yet to take it out of the user's list.
BeingDestroyed(s, t) ==
    \E o \in Threads \ {t} : th[o].csid = s /\ th[o].pc \in {"c_get", "c_remove"}

\* The guard found the client of an existing, unexpired session unauthenticated and
\* has failed in thread t.
AuthenticationLost(t) == Validated(t) /\ th[t].res.reason = "auth_lost"

\* C14: a guarded call that finds the client of an existing, unexpired session no
\* longer authenticated fails with the "authentication lost" authorization failure,
\* does not return the client, and leaves the session in neither active_sessions nor
\* sessions_by_user.
C14_AuthLostPurges ==
    \A t \in Workers :
        AuthenticationLost(t) =>
            /\ th[t].res = Res("PermissionError", "auth_lost", 0)
            /\ th[t].sid \notin active_sessions
            /\ ~Indexed(th[t].sid)

\* The same, a session that another thread is destroying at that moment apart.
AuthLostPurgesAlone ==
    \A t \in Workers :
        AuthenticationLost(t) =>
            /\ th[t].res = Res("PermissionError", "auth_lost", 0)
            /\ th[t].sid \notin active_sessions
            /\ Indexed(th[t].sid) => BeingDestroyed(th[t].sid, t)

\* logout has returned in thread t (its status is th[t].res.tag).
LoggedOut(t) == th[t].pc = "done" /\ th[t].op = "logout"

\* C15: logout reports "logged_out" exactly when the call itself removed a session that
\* was present, and "session_not_found" otherwise (so that no two logout calls report
\* the removal of one session); it never fails, and after it the session is not in
\* active_sessions, whether this or another call removed it.
C15_LogoutReportsRemoval ==
    \A t \in Workers :
        LoggedOut(t) =>
            /\ th[t].res.tag \in {"logged_out", "session_not_found"}
            /\ th[t].res.tag = "logged_out" <=> th[t].popped
            /\ th[t].sid \notin active_sessions

\* The same without the tie between the status and the removal: logout never fails,
\* a session it reports as not found was not in active_sessions when it looked, and
\* after it the session is not in active_sessions.
LogoutRemoves ==
    \A t \in Workers :
        LoggedOut(t) =>
            /\ th[t].res.tag \in {"logged_out", "session_not_found"}
            /\ th[t].popped => th[t].res.tag = "logged_out"
            /\ th[t].sid \notin active_sessions

\* session_status has returned in thread t (its answer is th[t].res).
Statused(t) == th[t].pc = "done" /\ th[t].op = "status"

\* The session the call in thread t named was in active_sessions when the call looked
\* it up.
FoundInStore(t) == th[t].res.reason # "not_found"

\* The session the call in thread t named is live when the call returns: it has not
\* expired, its client is authenticated and the round trip did not fail.
LiveAtReturn(t) ==
    /\ FoundInStore(t)
    /\ now < session_info[th[t].sid].expires_at
    /\ session_info[th[t].sid].client \in authenticated
    /\ th[t].res.tag # "error"

\* session_status is called in this step for an id that is not in active_sessions:
\* it returns inactive / not_found at once and nothing else changes.
StatusOfUnknown ==
    \A t \in Workers :
        (th[t].pc = "idle" /\ th'[t].op = "status" /\ th'[t].sid \notin active_sessions)
        => /\ th'[t].pc = "done"
           /\ th'[t].res = Res("inactive", "not_found", 0)
           /\ UNCHANGED <<session_vars, authenticated, rate_limit_data>>

\* What session_status answers for a session it found: never an exception; for one
\* that had expired when the call was made, inactive / expired, and the session is
\* not in active_sessions afterwards.
StatusAnswers ==
    \A t \in Workers :
        Statused(t) =>
            /\ th[t].res.tag \in {"active", "inactive", "error"}
            /\ th[t].late /\ FoundInStore(t) =>
                   /\ th[t].res = Res("inactive", "expired", 0)
                   /\ th[t].sid \notin active_sessions

\* C16 as stated: session_status never raises; for an unknown id it returns inactive /
\* not_found and changes nothing; for an expired session it purges the session and
\* returns inactive / expired; for a live session it returns active with a positive
\* number of seconds to expiry.
C16_StatusPositive ==
    /\ []StatusAnswers
    /\ [](\A t \in Workers :
             Statused(t) /\ LiveAtReturn(t) =>
                 /\ th[t].res.tag = "active"
                 /\ th[t].res.num > 0)
    /\ [][StatusOfUnknown]_vars

\* C16, amended: as stated, except that for a live session the number of seconds to
\* expiry is the time left truncated to whole seconds: it is not negative, and it is
\* 0 during the session's last second.
C16_StatusTruncates ==
    /\ []StatusAnswers
    /\ [](\A t \in Workers :
             Statused(t) /\ LiveAtReturn(t) =>
                 LET s == session_info[th[t].sid]
                 IN  /\ th[t].res.tag = "active"
                     /\ th[t].res.num >= 0
                     /\ th[t].res.num \in {s.expires_at - now - 1, s.expires_at - now})
    /\ [][StatusOfUnknown]_vars

\* session_status answered active with 0 seconds to expiry for a session that has
\* not expired.
C16_Witness ==
    \E t \in Workers :
        /\ Statused(t) /\ LiveAtReturn(t)
        /\ th[t].res = Res("active", "ok", 0)

\* The step changes active_sessions or sessions_by_user (its lists included).
SessionMapsChange ==
    \/ active_sessions' # active_sessions
    \/ sessions_by_user' # sessions_by_user
    \/ list_objs' # list_objs

\* The step is taken by the thread that holds lock.
StepOfHolder(lock) == lock \in Threads /\ th'[lock] # th[lock]

\* C8: every step that changes the session map or the user index is taken by a thread
\* holding _session_lock, and every step that changes rate_limit_data by a thread
\* holding _rate_limit_lock.
C8_MutationsUnderLock ==
    [][/\ SessionMapsChange => StepOfHolder(session_lock)
       /\ rate_limit_data' # rate_limit_data => StepOfHolder(rate_limit_lock)]_vars


\* --------------------------------------------------------------- tool surface
\* A tool call whose session id failed the guard when the call was made.
Unauthorized(t) == th[t].op \in Tools /\ th[t].failing
ToolEnded(t) == th[t].op \in Tools /\ th[t].pc = "done"

\* C18: every session-bearing tool rejects a call whose session id fails the guard
\* (unknown, expired or unauthenticated) with an authorization failure, before any
\* of its business logic (input validation or external-client call) has run.
C18_GuardBeforeLogic ==
    \A t \in Workers :
        Unauthorized(t) =>
            /\ th[t].ran = <<>>
            /\ ToolEnded(t) => th[t].res.tag = "PermissionError"

\* The same for the tools that open with the guard (update_task).
GuardFirstRejects ==
    \A t \in Workers :
        Unauthorized(t) /\ th[t].op = "update_task" =>
            /\ th[t].ran = <<>>
            /\ ToolEnded(t) => th[t].res.tag = "PermissionError"

\* No call of a guard-first tool with a failing session ends (never the case).
NoGuardFirstRejection ==
    \A t \in Workers :
        ~(Unauthorized(t) /\ ToolEnded(t) /\ th[t].op = "update_task"
          /\ th[t].sid # UnknownSession)

\* ------------------------------------------------------------ per-user limits
\* A step of a login for username U leaves every session of another user in the
\* store and the index of every other user as it was.
LoginSparesOthers ==
    \A t \in Workers, u \in TwoUsers :
        th[t].op = "login" /\ th'[t] # th[t] /\ u # th[t].user =>
            /\ ActiveOf(u)' = ActiveOf(u)
            /\ UserSessions(u)' = UserSessions(u)

\* With limit 1 and no login in progress, each user who has logged in has exactly
\* one session, the last one created for that user, in the store and in the index.
OneSessionEach ==
    NoLoginRunning /\ env.MAX_CONCURRENT_SESSIONS = 1 =>
        \A u \in TwoUsers :
            CreatedFor(u) # {} =>
                \E s \in CreatedFor(u) :
                    /\ \A x \in CreatedFor(u) : x <= s
                    /\ ActiveOf(u) = {s}
                    /\ UserSessions(u) = <<s>>

\* C19: a login for username U never removes or evicts a session owned by a
\* different username: the concurrent-session limit is counted and enforced per
\* user, so with limit 1 two different users each keep their own session.
C19_PerUserLimits == []OneSessionEach /\ [][LoginSparesOthers]_vars

\* With limit 1 alice has logged in again after bob's login, her earlier session
\* evicted, and bob's session and hers are both in the store.
C19_Witness ==
    /\ NoLoginRunning /\ env.MAX_CONCURRENT_SESSIONS = 1
    /\ \E b \in ActiveOf("bob"), a \in ActiveOf("alice") :
           /\ b < a
           /\ \E e \in CreatedFor("alice") : e < b /\ e \notin active_sessions

\* ------------------------------------------------------------ no limit
\* Thread t, inside login, is at the eviction branch or inside the eviction.
EvictionBranch(t) ==
    th[t].op = "login" /\ th[t].pc \in {"l_oldest", "c_pop", "c_get", "c_remove",
                                         "c_empty", "c_popuser"}

\* C20: with MAX_CONCURRENT_SESSIONS = 0 no login ever evicts a session: no login
\* enters the eviction branch, no session leaves the store, and after n successful
\* logins of a user (nothing else running) all n sessions are active and listed in
\* the user's index in the order of their creation.
C20_UnlimitedKeepsAll ==
    env.MAX_CONCURRENT_SESSIONS = Unlimited =>
        /\ \A t \in Workers : ~EvictionBranch(t)
        /\ active_sessions = DOMAIN session_info
        /\ NoLoginRunning =>
               \A u \in TwoUsers :
                   /\ ActiveOf(u) = CreatedFor(u)
                   /\ UserSessions(u) = SortedIds(CreatedFor(u))

\* With no limit, three logins of one user have succeeded and all three sessions
\* are in the store and the index.
C20_Witness ==
    /\ env.MAX_CONCURRENT_SESSIONS = Unlimited
    /\ NoLoginRunning
    /\ \E u \in TwoUsers :
           /\ Cardinality(CreatedFor(u)) >= 3
           /\ Len(UserSessions(u)) = Cardinality(CreatedFor(u))
           /\ ActiveOf(u) = CreatedFor(u)

\* ------------------------------------------------------------ client handles
\* C21: no two session records ever hold the same client handle: the client a
\* successful login constructs is owned by exactly one session, the one that login
\* creates, and is shared with no other session, past or present.
C21_ClientsDistinct ==
    \A s1, s2 \in DOMAIN session_info :
        s1 # s2 => session_info[s1].client # session_info[s2].client

\* Two sessions of one user and a session of the other user are in the store
\* together, each with a client of its own.
C21_Witness ==
    /\ NoLoginRunning
    /\ \E a1, a2 \in ActiveOf("alice"), b \in ActiveOf("bob") :
           /\ a1 # a2
           /\ Cardinality({session_info[a1].client, session_info[a2].client,
                            session_info[b].client}) = 3

\* ------------------------------------------------------------ absolute expiry
\* Every session record, in the store or removed from it, expires at its creation
\* time plus the configured TTL.
ExpiryFromCreation ==
    \A s \in DOMAIN session_info :
        session_info[s].expires_at = session_info[s].created_at + SESSION_EXPIRY

\* A guarded call for session s is at its last statement in thread t.
Touching(t, s) == th[t].op = "validate" /\ th[t].pc = "v_touch" /\ th[t].sid = s

\* A step changes a session record only in its last_accessed, and only as the last
\* step of a guarded call for that session, which succeeds; no step of
\* session_status changes any record.
OnlyLastAccessedMoves ==
    /\ \A s \in DOMAIN session_info :
           /\ session_info'[s].expires_at = session_info[s].expires_at
           /\ session_info'[s].created_at = session_info[s].created_at
           /\ session_info'[s].client = session_info[s].client
           /\ session_info'[s].username = session_info[s].username
           /\ session_info'[s].last_accessed # session_info[s].last_accessed =>
                  \E t \in Workers :
                      /\ Touching(t, s)
                      /\ th'[t].pc = "done" /\ th'[t].res.tag = "client"
                      /\ session_info'[s].last_accessed = now
    /\ \A t \in Workers :
           th[t].op = "status" /\ th'[t] # th[t] =>
               \A s \in DOMAIN session_info : session_info'[s] = session_info[s]

\* C22: a session's expires_at is fixed at creation as created_at + TTL and is never
\* changed afterwards: a successful validate changes only last_accessed, and
\* session_status changes no field of a live session.
C22_ExpiryFixed == []ExpiryFromCreation /\ [][OnlyLastAccessedMoves]_vars

\* A session was validated after its creation instant and session_status then
\* answered active for it; its expiry is still that of its creation.
C22_Witness ==
    \E t \in Workers :
        /\ Statused(t) /\ th[t].res.tag = "active"
        /\ session_info[th[t].sid].last_accessed > session_info[th[t].sid].created_at
        /\ session_info[th[t].sid].expires_at =
               session_info[th[t].sid].created_at + SESSION_EXPIRY

\* ------------------------------------------------------------ limit as a bound
\* C23: with a fixed limit L > 0, in every reachable state the number of session
\* records in the session map owned by any one username is at most L, also when
\* logins for that username run concurrently with each other and with logout, guard
\* purges and the session reaper.
C23_AtMostLimit ==
    env.MAX_CONCURRENT_SESSIONS > 0 =>
        \A u \in Users : Cardinality(ActiveOf(u)) <= env.MAX_CONCURRENT_SESSIONS

\* The same bound for the usernames of the runs with two users (it holds where
\* nothing but logins runs).
LimitHoldsAmongLogins ==
    env.MAX_CONCURRENT_SESSIONS > 0 =>
        \A u \in TwoUsers : Cardinality(ActiveOf(u)) <= env.MAX_CONCURRENT_SESSIONS

\* ------------------------------------------------------------ one record per login
\* A login has ended in thread t after its check let it through to the credentials.
ReachedCredentials(t) == LoginEnded(t) /\ th[t].res.tag # "PermissionError"

\* The login in thread t has returned a session id (a session was created for it).
SessionCreated(t) == th[t].res.tag = "session_id"

OneRecordUnlessFalse ==
    \A t \in Workers :
        ReachedCredentials(t) /\ th[t].res.reason # "unknown_reason" =>
            th[t].tracked = <<SessionCreated(t)>>

\* No login that created a session has tracked exactly one successful attempt
\* (never the case).
NoSingleRecord ==
    \A t \in Workers :
        ~(ReachedCredentials(t) /\ th[t].tracked = <<TRUE>>)

\* ------------------------------------------------------------ verified logins
\* C25: a login whose credential verification succeeds always returns a session id,
\* stores the new session and is tracked as a successful attempt; it is never turned
\* into a failure, nor tracked as a failed attempt, by a logout, guard purge or reaper
\* removal of the same user's sessions that runs concurrently with it.
C25_VerifiedLoginSucceeds ==
    \A t \in Workers :
        LoginEnded(t) /\ th[t].verified =>
            /\ SessionCreated(t)
            /\ th[t].res.num \in DOMAIN session_info
            /\ th[t].tracked = <<TRUE>>

\* No verified login fails while nothing has expired and no token is lost, that is,
\* with logout the only other call that removes a session (never the case).
NoLoginFailedByLogout ==
    \A t \in Workers :
        ~(/\ LoginEnded(t) /\ th[t].verified /\ th[t].res.tag = "RuntimeError"
          /\ now = 0
          /\ \A s \in DOMAIN session_info : is_authenticated(session_info[s].client))

\* ------------------------------------------------------------ failures per window
\* C26: for a username with max_attempts = N > 0, at most N failed credential
\* verifications are made inside one rate window before check starts rejecting, also
\* when several logins for that username run concurrently: the failed attempts on
\* record inside the window that ends now are never more than N.
C26_AtMostNFailures ==
    env.LOGIN_MAX_ATTEMPTS > 0 =>
        \A u \in DOMAIN rate_limit_data :
            FailuresInWindow(rate_limit_data[u], now) <= env.LOGIN_MAX_ATTEMPTS

\* ------------------------------------------------------------ track of a failure
\* Thread t is inside the critical section of _track_login_attempt(username, False).
TrackingFailure(t) == th[t].pc = "l_track_cs" /\ ~th[t].success

\* The record of username before a track: the one on file, or a new one.
RecordOf(username) ==
    IF username \in DOMAIN rate_limit_data THEN rate_limit_data[username] ELSE RateLimitInfo

\* The step of track(username, success=false): the record keeps its attempts and gets
\* one more, failed and stamped now, at the end; locked_until stays as it was; the
\* records of the other usernames stay as they were.
TrackFailureAppends ==
    \A t \in Workers, u \in Users :
        TrackingFailure(t) /\ th[t].user = u /\ th'[t] # th[t] =>
            /\ u \in DOMAIN rate_limit_data'
            /\ rate_limit_data'[u].attempts =
                   Append(RecordOf(u).attempts, LoginAttempt(now, u, FALSE))
            /\ rate_limit_data'[u].locked_until = RecordOf(u).locked_until
            /\ \A v \in DOMAIN rate_limit_data \ {u} :
                   v \in DOMAIN rate_limit_data' /\ rate_limit_data'[v] = rate_limit_data[v]

CheckingLockedOut(t) ==
    /\ th[t].pc = "l_check"
    /\ th[t].user \in DOMAIN rate_limit_data
    /\ LockedOut(rate_limit_data[th[t].user], now)

\* A check made during a lockout fails with the lockout error and leaves every
\* record as it was.
LockedCheckChangesNothing ==
    \A t \in Workers :
        CheckingLockedOut(t) /\ th'[t] # th[t] =>
            /\ rate_limit_data' = rate_limit_data
            /\ th'[t].pc = "done"
            /\ th'[t].res.tag = "PermissionError" /\ th'[t].res.reason = "locked_out"

\* No step moves the expiry of a lockout in force to another instant: it stays, or
\* it is cleared.
LockoutNotProlonged ==
    \A u \in DOMAIN rate_limit_data :
        LockedOut(rate_limit_data[u], now) /\ u \in DOMAIN rate_limit_data' =>
            rate_limit_data'[u].locked_until \in {None, rate_limit_data[u].locked_until}

OldestFirst(attempts) ==
    \A i, j \in DOMAIN attempts : i < j => attempts[i].timestamp <= attempts[j].timestamp

\* The check of thread t has gone through the window logic (pruning and counting)
\* and is about to return or raise.
WindowChecked(t) ==
    /\ th[t].max_attempts > 0
    /\ th[t].found.present
    /\ \/ Passed(t)
       \/ Rejected(t) /\ th[t].res.reason = "threshold"

\* C29: each username's attempt sequence is always ordered oldest-first by
\* timestamp, under any interleaving of track, check and the reaper; consequently
\* after any check that reaches the window logic no remaining attempt is older than
\* now minus the window width.
C29_AttemptsOldestFirst ==
    /\ \A u \in DOMAIN rate_limit_data : OldestFirst(rate_limit_data[u].attempts)
    /\ \A t \in Workers :
           WindowChecked(t) =>
               \A i \in DOMAIN rate_limit_data[th[t].user].attempts :
                   rate_limit_data[th[t].user].attempts[i].timestamp
                       >= now - LOGIN_RATE_WINDOW

\* A check has pruned the older attempts of a record and has left the newer ones.
C29_Witness ==
    \E t \in Workers :
        /\ WindowChecked(t)
        /\ rate_limit_data[th[t].user].attempts # <<>>
        /\ Len(rate_limit_data[th[t].user].attempts) < Len(th[t].found.info.attempts)

\* ------------------------------------------------------------ the lockout lapses
\* A login for username has passed its check and has yet to track its attempt.
InFlight(username) ==
    \E t \in Workers :
        /\ th[t].op = "login" /\ th[t].user = username
        /\ th[t].pc \notin {"idle", "l_check", "done"}

\* LOCKED_OUT: the record of username carries a lockout in force, and no login is on
\* its way to track a further attempt for username.
LockedOutAndQuiet(username) ==
    /\ username \in DOMAIN rate_limit_data
    /\ LockedOut(rate_limit_data[username], now)
    /\ ~InFlight(username)

\* UNRESTRICTED: a check made now for username returns without raising.
Unrestricted(username) ==
    \/ username \notin DOMAIN rate_limit_data
    \/ CheckRecord(rate_limit_data[username], env.LOGIN_MAX_ATTEMPTS, now, 0).verdict = "pass"

\* C30: the state machine UNRESTRICTED -> LOCKED_OUT -> UNRESTRICTED is live: a
\* locked-out username for which no further attempts are tracked returns to
\* UNRESTRICTED once now passes the stored lockout expiry: check eventually succeeds
\* again, without any explicit unlock.
C30_LockoutLapses ==
    \A u \in Users : LockedOutAndQuiet(u) ~> Unrestricted(u)

\* The check of a login has passed on a record whose lockout has run out and still
\* stands in the record: nothing has unlocked it.
C30_Witness ==
    \E t \in Workers :
        /\ Passed(t) /\ th[t].max_attempts > 0
        /\ th[t].found.present
        /\ th[t].found.info.locked_until # None
        /\ now >= th[t].found.info.locked_until
        /\ rate_limit_data[th[t].user].locked_until = th[t].found.info.locked_until

\* ------------------------------------------------------ the reaper's progress
\* Session s has been stored and its expires_at has passed.
HasExpired(s) == s \in DOMAIN session_info /\ is_expired(session_info[s], now)

\* C31: every session that becomes expired is eventually absent from both the session
\* map and the user index, even if no request ever touches it again, provided the
\* session reaper keeps being scheduled.
C31_ExpiredEventuallyGone ==
    \A s \in 1..MaxExpiryLogins : HasExpired(s) ~> (s \notin active_sessions /\ ~Indexed(s))

\* The half that holds: every expired session eventually leaves the session map.
ExpiredLeavesStore ==
    \A s \in 1..MaxExpiryLogins : HasExpired(s) ~> s \notin active_sessions

\* ------------------------------------------------------------ the reaper loops
Reapers == {SessionCleanup, RateLimitCleanup}

\* The loop of reaper r is in asyncio.sleep, between two sweeps.
Sleeping(r) == th[r].pc = "idle"

\* C32: in each reaper loop an exception raised during one sweep is caught and the
\* loop continues to the next interval: the loop never terminates or propagates the
\* fault (no reaper thread ever stops), and after a failed sweep the loop is back at
\* its sleep, from which further sweeps are made and themselves come to their end.
C32_LoopsSurviveFaults ==
    /\ [](\A r \in Reapers : th[r].pc # "stopped")
    /\ \A r \in Reapers : (th[r].faults > 0) ~> Sleeping(r)
    /\ \A s \in 1..MaxLoopLogins : HasExpired(s) ~> s \notin active_sessions

\* Each reaper is inside a sweep made after a sweep of its loop has raised.
C32_Witness ==
    /\ th[SessionCleanup].faults > 0 /\ th[SessionCleanup].pc = "c_pop"
    /\ th[RateLimitCleanup].faults > 0 /\ th[RateLimitCleanup].pc = "done"
    /\ th[RateLimitCleanup].res.num > 0

\* ------------------------------------------------- session_status, round trip
\* The round trip of the call in thread t to the Taiga API raised.
RoundTripFailed(t) == Statused(t) /\ th[t].res.reason = "api_error"

\* C33: when the liveness round trip made by session_status fails, the session is
\* purged from both maps and the call reports the session as inactive: the reported
\* status is always one of active and inactive, and never active after a failed
\* round trip.
C33_RoundTripFailClosed ==
    \A t \in Workers :
        Statused(t) =>
            /\ th[t].res.tag \in {"active", "inactive"}
            /\ RoundTripFailed(t) =>
                   /\ th[t].res.tag = "inactive"
                   /\ th[t].sid \notin active_sessions
                   /\ ~Indexed(th[t].sid) \/ BeingDestroyed(th[t].sid, t)

\* What holds of a failed round trip: the session is not reported active and is not
\* in active_sessions when the call returns.
FailedRoundTripPurges ==
    \A t \in Workers :
        RoundTripFailed(t) =>
            /\ th[t].res.tag = "error"
            /\ th[t].sid \notin active_sessions

\* ------------------------------------------------------ who creates sessions
\* The session ids the index (dict by_user, list heap lists) holds for username.
IndexedIds(by_user, lists, username) ==
    IF username \in DOMAIN by_user
    THEN {lists[by_user[username]][i] : i \in DOMAIN lists[by_user[username]]}
    ELSE {}

\* The step adds a record to the session map, or a username or a session id to the
\* user index.
AddsSession ==
    \/ active_sessions' \ active_sessions # {}
    \/ DOMAIN sessions_by_user' \ DOMAIN sessions_by_user # {}
    \/ \E u \in Users :
           IndexedIds(sessions_by_user', list_objs', u)
               \ IndexedIds(sessions_by_user, list_objs, u) # {}

\* Every step that adds to the session map or the user index is a step of a login
\* whose credentials have been verified, and a login that the rate limiter rejects
\* or whose credentials fail changes neither; no other operation and no reaper adds.
OnlyVerifiedLoginAdds ==
    /\ AddsSession =>
           \E t \in Workers : th'[t] # th[t] /\ th[t].op = "login" /\ th[t].verified
    /\ \A t \in Workers :
           th'[t] # th[t] /\ th[t].op = "login" /\ ~th[t].verified =>
               UNCHANGED session_vars

\* A login that has ended in an error has left no record of its own in the session
\* map (the client of a record names the login call that made it).
FailedLoginLeftNothing ==
    \A t \in Workers :
        LoginEnded(t) /\ th[t].res.tag # "session_id" =>
            \A s \in active_sessions : session_info[s].client # NewWrapper(th[t].call)

\* C34: session records are created only by a successful login: a login rejected by
\* the rate limiter or whose credential verification fails leaves the session map and
\* the user index unchanged, and validate, session_status, logout and the reapers
\* never add a record.
C34_OnlySuccessfulLoginCreates ==
    []FailedLoginLeftNothing /\ [][OnlyVerifiedLoginAdds]_vars

\* The part about the steps alone.
AddedByVerifiedLoginAlone == [][OnlyVerifiedLoginAdds]_vars

\* ------------------------------------------------------- remaining seconds
\* The check of the login in thread t found a lockout in force and raised.
LockoutRejected(t) ==
    LoginEnded(t) /\ th[t].res.tag = "PermissionError" /\ th[t].res.reason = "locked_out"

\* C35 as stated: whenever check rejects a username because of an active lockout, the
\* remaining-seconds value in the failure is positive and no larger than the
\* configured lockout duration.
C35_RemainingPositive ==
    \A t \in Workers :
        LockoutRejected(t) =>
            th[t].res.num > 0 /\ th[t].res.num <= LOGIN_LOCKOUT_DURATION

\* C35, amended: the remaining-seconds value is the time left of the lockout
\* truncated to whole seconds: it is not negative, it is 0 during the lockout's last
\* second, and it is no larger than the configured lockout duration.
C35_RemainingTruncated ==
    \A t \in Workers :
        LockoutRejected(t) =>
            LET left == th[t].found.info.locked_until - now
            IN  /\ left > 0
                /\ th[t].res.num \in {left - 1, left}
                /\ th[t].res.num >= 0 /\ th[t].res.num <= LOGIN_LOCKOUT_DURATION

\* A check made during the last second of a lockout was rejected with 0 seconds
\* remaining.
C35_Witness ==
    \E t \in Workers :
        /\ LockoutRejected(t) /\ th[t].res.num = 0
        /\ th[t].found.info.locked_until - now = 1

\* ------------------------------------------------------------ the session TTL
\* The login in thread t holds, not yet indexed, the session th[t].new_sid it has
\* created with SESSION_EXPIRY read as th[t].ttl.
JustStored(t) == th[t].pc = "l_index"

\* The TTL of every session record is positive: a configured value, or the default.
PositiveTTL ==
    \A s \in DOMAIN session_info :
        /\ session_info[s].expires_at >= session_info[s].created_at
        /\ session_info[s].expires_at - session_info[s].created_at
               \in {v \in TTLValues : v > 0} \cup {28800}

\* The step in which a login creates a session: the record is created now, its TTL is
\* the configured value or, when that is zero or negative, 28800, and it has not
\* expired.
CreatedUnexpired ==
    \A t \in Workers :
        th[t].pc = "l_store" /\ JustStored(t)' =>
            LET s == session_info'[th'[t].new_sid]
                ttl == th'[t].ttl
            IN  /\ s.created_at = now'
                /\ s.expires_at = s.created_at + (IF ttl <= 0 THEN 28800 ELSE ttl)
                /\ ~is_expired(s, now')

\* C36: every session record satisfies expires_at >= created_at, with expires_at =
\* created_at + TTL and TTL > 0: a configured TTL that is zero or negative is
\* replaced by the default of 28800 seconds, so no session is created already expired.
C36_ExpiryAfterCreation == []PositiveTTL /\ [][CreatedUnexpired]_vars

\* A session has just been created with SESSION_EXPIRY zero or negative, and expires
\* 28800 seconds after its creation.
C36_Witness ==
    \E t \in Workers :
        /\ JustStored(t) /\ th[t].ttl <= 0
        /\ th[t].new_sid \in active_sessions
        /\ session_info[th[t].new_sid].expires_at = now + 28800

\* -------------------------------------------------------- removed session ids
\* Session id s was created and is no longer in the session map.
Removed(s) == s \in DOMAIN session_info /\ s \notin active_sessions

\* A removed id stays removed: no step puts it back into the session map (a login
\* stores its session under an id no session has had).
RemovedStaysRemoved ==
    \A s \in DOMAIN session_info : Removed(s) => s \notin active_sessions'

\* A validate or session_status call that starts when the id it names has been
\* removed reports it as invalid / not found at once.
RemovedIsRefused ==
    \A t \in Workers :
        (th[t].pc = "idle" /\ th'[t].op \in {"validate", "status"} /\ Removed(th'[t].sid))
        => /\ th'[t].pc = "done"
           /\ th'[t].res = IF th'[t].op = "validate"
                           THEN Res("PermissionError", "invalid", 0)
                           ELSE Res("inactive", "not_found", 0)

\* The id under which a login stores its session is the id of no earlier session,
\* removed or not.
NeverReissued ==
    \A t \in Workers :
        th[t].pc = "l_store" /\ th'[t].pc = "l_index" =>
            th'[t].new_sid \notin DOMAIN session_info \cup issued

\* C37: once a session id has been removed (by logout, eviction, guard purge or
\* reaper), every validate or session_status call that starts afterwards reports it
\* as invalid / not found: a removed id never becomes valid again and is never
\* reissued to a later login.
C37_RemovedNeverValid ==
    [][RemovedStaysRemoved /\ RemovedIsRefused /\ NeverReissued]_vars

\* A guarded call or a session_status call has refused an id that login had returned
\* and that has since been removed, while a session created later is in the session
\* map.
C37_Witness ==
    \E t \in Workers :
        /\ th[t].pc = "done" /\ th[t].op \in {"validate", "status"}
        /\ th[t].sid \in issued /\ Removed(th[t].sid)
        /\ th[t].res.reason \in {"invalid", "not_found"}
        /\ \E s \in active_sessions : s > th[t].sid

\* ------------------------------------------------------------------ the locks
\* No thread holds _session_lock and _rate_limit_lock at the same time.
NeverBothLocks == \A t \in Threads : ~(session_lock = t /\ rate_limit_lock = t)

\* A lock is held only by a thread inside the with-block that took it: _session_lock
\* between login's entry of its block and the end of the block (the eviction's
\* _cleanup_session included), _rate_limit_lock inside the blocks of check, track and
\* the rate-limit sweep; a thread that has returned or raised holds none.
HeldInsideBlocks ==
    \A t \in Threads :
        /\ session_lock = t =>
               /\ th[t].op = "login"
               /\ th[t].pc \in {"l_len", "l_oldest", "l_store", "l_index", "l_append",
                                "c_pop", "c_get", "c_remove", "c_empty", "c_popuser"}
        /\ rate_limit_lock = t => th[t].pc \in {"l_check", "l_track_cs", "rl_sweep"}
        /\ th[t].pc \in {"idle", "done", "l_checked", "l_track", "stopped"} =>
               session_lock # t /\ rate_limit_lock # t

\* While a call or a sweep is unfinished some thread can take a step: the threads
\* are never all waiting.
NeverAllWaiting == (\E t \in Threads : th[t].pc # "idle") => ENABLED LockStep

\* C38: no thread ever holds the session lock and the rate-limit lock at the same
\* time, and every lock acquired by login, check, track or the rate-limit reaper is
\* released on every exit path, raised errors included; hence no interleaving of
\* request threads and the two reapers can deadlock.
C38_NoDeadlock == NeverBothLocks /\ HeldInsideBlocks /\ NeverAllWaiting

\* A login holds _session_lock while the rate-limit reaper holds _rate_limit_lock,
\* after a sweep of the reaper has raised inside its block.
C38_Witness ==
    \E t \in Workers :
        /\ session_lock = t /\ rate_limit_lock = RateLimitCleanup
        /\ th[RateLimitCleanup].pc = "rl_sweep"
        /\ th[RateLimitCleanup].faults > 0

\* ------------------------------------------------ eviction and the next check
\* What _check_rate_limit does for username at time t when rate_limit_data is data:
\* "pass" when it returns, otherwise the branch that raises PermissionError.
CheckVerdict(data, username, max_attempts, t, behind) ==
    IF username \notin DOMAIN data
    THEN "pass"
    ELSE CheckRecord(data[username], max_attempts, t, behind).verdict

\* rate_limit_data after _track_login_attempt(username, success) at time t.
Tracked(data, username, success, t) ==
    DictSet(data, username,
            TrackRecord(IF username \in DOMAIN data THEN data[username] ELSE RateLimitInfo,
                        username, success, t))

\* The instants after t at which the rate window and the window of the sweep can
\* still tell two records apart.
Later(t) == t..(t + 2 * LOGIN_RATE_WINDOW + 1)

\* C39: eviction of a rate-limit record by the rate-limit reaper never changes the
\* outcome of the next check for that username, the max-attempts and window settings
\* being unchanged and positive: at any later instant the check on the record the
\* reaper removed would have passed, as the check that finds no record does, also
\* when attempts of logins under way are tracked before that check.
C39_EvictionKeepsVerdict ==
    RateSwept /\ env.LOGIN_MAX_ATTEMPTS > 0 =>
        LET before == th[RateLimitCleanup].before
            N == env.LOGIN_MAX_ATTEMPTS
        IN  \A u \in DOMAIN before \ DOMAIN rate_limit_data :
            \A t2 \in Later(now), behind \in 0..1 :
                /\ CheckVerdict(before, u, N, t2, behind) = "pass"
                /\ CheckVerdict(rate_limit_data, u, N, t2, behind) = "pass"
                /\ \A t1 \in now..t2, s1 \in BOOLEAN :
                       /\ CheckVerdict(Tracked(before, u, s1, t1), u, N, t2, behind)
                              = CheckVerdict(Tracked(rate_limit_data, u, s1, t1), u, N, t2, behind)
                       /\ \A t0 \in now..t1, s0 \in BOOLEAN :
                              CheckVerdict(Tracked(Tracked(before, u, s0, t0), u, s1, t1),
                                           u, N, t2, behind)
                                  = CheckVerdict(Tracked(Tracked(rate_limit_data, u, s0, t0), u, s1, t1),
                                                 u, N, t2, behind)

\* A sweep removed the record of a username that had been locked out: the record
\* held a failed attempt and a lockout that had run out.
C39_Witness ==
    /\ RateSwept /\ env.LOGIN_MAX_ATTEMPTS > 0
    /\ \E u \in DOMAIN th[RateLimitCleanup].before \ DOMAIN rate_limit_data :
           LET r == th[RateLimitCleanup].before[u]
           IN  /\ FailedAttempts(r.attempts) # <<>>
               /\ r.locked_until # None
               /\ th[RateLimitCleanup].res.num > 0
====
